---- MODULE Spec2Model ----
(***************************************************************************)
(* Constructors and verifiers of the problem units CT11 (Eulerian town     *)
(* tour), CT1 (cycle-fan graph), CT7 (distinct-displacement permutation)   *)
(* and CT15 (polygon with n triangulations).  The units share no state:    *)
(* each has its own variables, its own actions and its own specification,  *)
(* and the variables of the other units stay at their idle values.         *)
(***************************************************************************)
EXTENDS Integers, Sequences, FiniteSets, TLC

VARIABLES
    \* CT11: _traverse_full_cycle / solution
    ct11_n, ct11_marks, ct11_path, ct11_visited_edges, ct11_v, ct11_prev_dir,
    ct11_status, ct11_turns, ct11_prev_dir_vec, ct11_i,
    \* CT11 verifier: test_route_uses_all_directed_sides_once on a list of
    \* turning points (ct11v_full is the list full of _expand_turning_points,
    \* ct11v_i the 0-based index of its segment loop)
    ct11v_n, ct11v_turns, ct11v_full, ct11v_i, ct11v_verdict,
    \* CT1: build_adjacency_2k_gon_with_subdivided_fans / construct_graph,
    \* and the path of the verifier's simple-cycle search
    ct1_k, ct1_edges, ct1_next_sub_idx, ct1_i, ct1_side, ct1_p, ct1_internal,
    ct1_prev, ct1_phase, ct1_A, ct1_path,
    \* CT1 verifier: _parse_construction on a matrix (ct1p_obj, entries in
    \* halves), then on the {V, E} form of the parsed graph
    ct1p_obj, ct1p_A, ct1p_verdict, ct1p_V, ct1p_E, ct1p_k, ct1p_A2,
    ct1p_verdict2, ct1p_phase,
    \* CT7: solution and its backtracking search (the stack holds one frame
    \* per active call of backtrack; ct7_ret is the value a call just returned)
    ct7_input, ct7_n, ct7_a, ct7_pos_free, ct7_val_free, ct7_remaining,
    ct7_stack, ct7_ret, ct7_status, ct7_result,
    \* CT7 verifier: test_permutation_and_diffs on a candidate
    \* (ct7v_report is the triple j, i, d of the failure message)
    ct7v_n, ct7v_a, ct7v_verdict, ct7v_report,
    \* CT15: solution, then test_simple_polygon_and_triangulations with
    \* count_triangulations (valid, dp and its loop indices length and i)
    ct15_n, ct15_poly, ct15_valid, ct15_dp, ct15_length, ct15_i, ct15_num,
    ct15_phase,
    \* CT6: solution, the polynomials it builds one after the other
    ct6_m, ct6_n, ct6_X_plus_Y, ct6_X_plus_Y_sq, ct6_two_X_minus_Y, ct6_S,
    ct6_P, ct6_terms, ct6_pc,
    \* CT8: solution (ct8_i and ct8_j are the indices of its loops), then
    \* test_label_range_and_distinct and test_magic_property
    ct8_m, ct8_n, ct8_matrix, ct8_i, ct8_j, ct8_pc, ct8_verdict,
    \* CT5: solution and _lift_once (ct5_out and ct5_idx are the list and the
    \* loop index of _lift_once), then the two tests
    ct5_n, ct5_seq, ct5_cur, ct5_out, ct5_idx, ct5_pc, ct5_result,
    ct5_verdict,
    \* CT12: solution (ct12_iter is the loop variable of "for _ in range")
    ct12_M, ct12_t, ct12_m, ct12_iter, ct12_n, ct12_pc,
    \* CT1 cycle verifier: one call of a function of unit_tests.py on the
    \* matrix ct1c_A, its arguments and what it returned
    ct1c_A, ct1c_fn, ct1c_args, ct1c_ret,
    \* CT16: solution (ct16_iter counts the iterations of "for _ in
    \* range(max_iterations)" that have been completed)
    ct16_n, ct16_points, ct16_construction, ct16_iter, ct16_status

ct11vars == <<ct11_n, ct11_marks, ct11_path, ct11_visited_edges, ct11_v,
              ct11_prev_dir, ct11_status, ct11_turns, ct11_prev_dir_vec,
              ct11_i>>

ct11vvars == <<ct11v_n, ct11v_turns, ct11v_full, ct11v_i, ct11v_verdict>>

ct1vars == <<ct1_k, ct1_edges, ct1_next_sub_idx, ct1_i, ct1_side, ct1_p,
             ct1_internal, ct1_prev, ct1_phase, ct1_A, ct1_path>>

ct1pvars == <<ct1p_obj, ct1p_A, ct1p_verdict, ct1p_V, ct1p_E, ct1p_k,
              ct1p_A2, ct1p_verdict2, ct1p_phase>>

ct7vars == <<ct7_input, ct7_n, ct7_a, ct7_pos_free, ct7_val_free,
             ct7_remaining, ct7_stack, ct7_ret, ct7_status, ct7_result>>

ct7vvars == <<ct7v_n, ct7v_a, ct7v_verdict, ct7v_report>>

ct15vars == <<ct15_n, ct15_poly, ct15_valid, ct15_dp, ct15_length, ct15_i,
              ct15_num, ct15_phase>>

ct6vars == <<ct6_m, ct6_n, ct6_X_plus_Y, ct6_X_plus_Y_sq, ct6_two_X_minus_Y,
             ct6_S, ct6_P, ct6_terms, ct6_pc>>

ct8vars == <<ct8_m, ct8_n, ct8_matrix, ct8_i, ct8_j, ct8_pc, ct8_verdict>>

ct5vars == <<ct5_n, ct5_seq, ct5_cur, ct5_out, ct5_idx, ct5_pc, ct5_result,
             ct5_verdict>>

ct12vars == <<ct12_M, ct12_t, ct12_m, ct12_iter, ct12_n, ct12_pc>>

ct1cvars == <<ct1c_A, ct1c_fn, ct1c_args, ct1c_ret>>

ct16vars == <<ct16_n, ct16_points, ct16_construction, ct16_iter, ct16_status>>

vars == <<ct11vars, ct11vvars, ct1vars, ct1pvars, ct7vars, ct7vvars, ct15vars,
          ct6vars, ct8vars, ct5vars, ct12vars, ct1cvars, ct16vars>>

\* What an action of one unit leaves alone: the other units.
ct11others == <<ct11vvars, ct1vars, ct1pvars, ct7vars, ct7vvars, ct15vars,
                ct6vars, ct8vars, ct5vars, ct12vars, ct1cvars, ct16vars>>

ct11vothers == <<ct11vars, ct1vars, ct1pvars, ct7vars, ct7vvars, ct15vars,
                 ct6vars, ct8vars, ct5vars, ct12vars, ct1cvars, ct16vars>>

\* What the hand-over from the CT11 solution to its verifier leaves alone.
ct11pipeothers == <<ct1vars, ct1pvars, ct7vars, ct7vvars, ct15vars, ct6vars,
                    ct8vars, ct5vars, ct12vars, ct1cvars, ct16vars>>

ct1others == <<ct11vars, ct11vvars, ct1pvars, ct7vars, ct7vvars, ct15vars,
               ct6vars, ct8vars, ct5vars, ct12vars, ct1cvars, ct16vars>>

ct1pothers == <<ct11vars, ct11vvars, ct1vars, ct7vars, ct7vvars, ct15vars,
                ct6vars, ct8vars, ct5vars, ct12vars, ct1cvars, ct16vars>>

ct7others == <<ct11vars, ct11vvars, ct1vars, ct1pvars, ct7vvars, ct15vars,
               ct6vars, ct8vars, ct5vars, ct12vars, ct1cvars, ct16vars>>

ct7vothers == <<ct11vars, ct11vvars, ct1vars, ct1pvars, ct7vars, ct15vars,
                ct6vars, ct8vars, ct5vars, ct12vars, ct1cvars, ct16vars>>

ct15others == <<ct11vars, ct11vvars, ct1vars, ct1pvars, ct7vars, ct7vvars,
                ct6vars, ct8vars, ct5vars, ct12vars, ct1cvars, ct16vars>>

ct8others == <<ct11vars, ct11vvars, ct1vars, ct1pvars, ct7vars, ct7vvars,
               ct15vars, ct6vars, ct5vars, ct12vars, ct1cvars, ct16vars>>

ct12others == <<ct11vars, ct11vvars, ct1vars, ct1pvars, ct7vars, ct7vvars,
                ct15vars, ct6vars, ct8vars, ct5vars, ct1cvars, ct16vars>>

ct1cothers == <<ct11vars, ct11vvars, ct1vars, ct1pvars, ct7vars, ct7vvars,
                ct15vars, ct6vars, ct8vars, ct5vars, ct12vars, ct16vars>>

ct16others == <<ct11vars, ct11vvars, ct1vars, ct1pvars, ct7vars, ct7vvars,
                ct15vars, ct6vars, ct8vars, ct5vars, ct12vars, ct1cvars>>

ct5others == <<ct11vars, ct11vvars, ct1vars, ct1pvars, ct7vars, ct7vvars,
               ct15vars, ct6vars, ct8vars, ct12vars, ct1cvars, ct16vars>>

ct6others == <<ct11vars, ct11vvars, ct1vars, ct1pvars, ct7vars, ct7vvars,
               ct15vars, ct8vars, ct5vars, ct12vars, ct1cvars, ct16vars>>

\* Largest town size n explored (CT11).
MaxN11 == 7

\* Largest n, and largest coordinate, of the turning-point lists handed to
\* the CT11 verifier.
MaxNTurn == 2

\* Largest number of turning points of such a list.
MaxTurns == 5

\* Largest k for which the CT1 graph is constructed and its edges searched
\* for cycles of length 2k and 2k+1.
MaxK1 == 3

\* Largest k for which every simple path of the CT1 graph is enumerated.
MaxKCycle == 2

\* Largest order of the matrices with arbitrary entries handed to the CT1
\* verifier, and the largest entry, in halves (4 is the entry 2.0).
MaxNRaw == 2

MaxHalf == 4

\* Largest order of the simple graphs whose two forms are parsed (CT1).
MaxNGraph == 4

\* Largest n passed to the CT7 solution.
MaxN7 == 13

\* Largest n for which every permutation is handed to the CT7 verifier.
MaxNPerm == 7

\* Largest n, with sequences of length up to MaxNSeq + 1 over the values
\* 0 .. MaxNSeq + 1, handed to the CT7 verifier.
MaxNSeq == 4

\* Largest m and n in the parameters of the CT6 and CT8 solutions.
MaxMN == 4

\* Largest n requested from the CT5 solution.
MaxN5 == 6

\* Largest M handed to the CT12 solution.
MaxM12 == 400

\* The number of iterations the CT12 loop is allowed, "range(10000)" in the
\* source, scaled to the values of M above.
CT12_safety_bound == 2

\* Largest number of vertices of the graphs handed to the CT1 cycle
\* verifier; lengths and moduli go up to one more.
MaxNCyc == 4

\* Largest number of vertices of the polygons whose validity relation is
\* handed to the interval DP of count_triangulations.
MaxMDp == 6

\* Largest number of points given to the CT16 solution.
MaxN16 == 5

\* Largest coordinate of those points.
MaxCoord16 == 2

\* Largest n of the towns whose routes are handed to the verifier.
MaxNRoute == 3

\* Largest n of the grids walked with an arbitrary set of marks.
MaxNWalk == 4

\* Largest n requested from the CT15 solution.
MaxN15 == 7

(***************************************************************************)
(* Generic helpers                                                         *)
(***************************************************************************)
Abs(x) == IF x < 0 THEN -x ELSE x

Min2(x, y) == IF x <= y THEN x ELSE y

Max2(x, y) == IF x >= y THEN x ELSE y

Range(s) == {s[i] : i \in DOMAIN s}

(***************************************************************************)
(* CT11  src/CT11/solution.py                                              *)
(***************************************************************************)
DIR_ORDER == <<"E", "S", "W", "N">>

DIR_DELTA == [d \in {"E", "S", "W", "N"} |->
                CASE d = "E" -> <<1, 0>>
                  [] d = "S" -> <<0, -1>>
                  [] d = "W" -> <<-1, 0>>
                  [] d = "N" -> <<0, 1>>]

CT11_index(d) == CHOOSE i \in 1..4 : DIR_ORDER[i] = d

\* _right: the next direction clockwise.
CT11_right(d) == DIR_ORDER[(CT11_index(d) % 4) + 1]

CT11_is_boundary(x, y, n) == x = 0 \/ x = n \/ y = 0 \/ y = n

\* add_point: keeps a point only when it lies in [1,t] x [1,t].
CT11_add_point(ms, p, t) ==
    IF 1 <= p[1] /\ p[1] <= t /\ 1 <= p[2] /\ p[2] <= t THEN ms \cup {p} ELSE ms

alternates == <<<<1, 2>>, <<2, 1>>>>

\* The "while True" stepping loop of _build_marks; idx is 0 or 1.
RECURSIVE CT11_alternate_loop(_, _, _, _)
CT11_alternate_loop(ms, pos, idx, t) ==
    LET nx == pos[1] + alternates[idx + 1][1]
        ny == pos[2] + alternates[idx + 1][2]
    IN  IF nx > t \/ ny > t THEN ms
        ELSE CT11_alternate_loop(CT11_add_point(ms, <<nx, ny>>, t), <<nx, ny>>,
                                 1 - idx, t)

\* The seed loop: adds every seed that fits and leaves pos at the last one
\* that fits (<<0, 0>> stands for None).  Returns <<marks, pos>>.
RECURSIVE CT11_seed_loop(_, _, _, _, _)
CT11_seed_loop(seeds, i, ms, pos, t) ==
    IF i > Len(seeds) THEN <<ms, pos>>
    ELSE LET s == seeds[i]
         IN  IF s[1] <= t /\ s[2] <= t
             THEN CT11_seed_loop(seeds, i + 1, CT11_add_point(ms, s, t), s, t)
             ELSE CT11_seed_loop(seeds, i + 1, ms, pos, t)

CT11_build_marks(n) ==
    LET t == n - 2
        rem == n % 3
    IN  IF t < 1 THEN {}
        ELSE IF rem = 2
             THEN CT11_alternate_loop(CT11_add_point({}, <<2, 1>>, t), <<2, 1>>, 0, t)
        ELSE IF rem = 1
             THEN LET sd == CT11_seed_loop(<<<<2, 1>>, <<1, 2>>, <<4, 3>>>>, 1, {},
                                           <<0, 0>>, t)
                  IN  IF sd[2] = <<4, 3>>
                      THEN CT11_alternate_loop(sd[1], sd[2], 0, t)
                      ELSE sd[1]
        ELSE LET sd == CT11_seed_loop(<<<<2, 1>>, <<1, 2>>, <<3, 2>>, <<4, 4>>>>,
                                      1, {}, <<0, 0>>, t)
             IN  IF sd[2] = <<4, 4>>
                 THEN CT11_alternate_loop(sd[1], sd[2], 1, t)
                 ELSE sd[1]

CT11_next_dir_marks_only(x, y, prev_dir, marks, n) ==
    IF <<x, y>> \in marks THEN CT11_right(prev_dir) ELSE prev_dir

CT11_next_dir(x, y, prev_dir, marks, n) ==
    IF CT11_is_boundary(x, y, n) THEN CT11_right(prev_dir)
    ELSE IF <<x, y>> \in marks THEN CT11_right(prev_dir)
    ELSE prev_dir

CT11_expected_edge_count(n) == 4 * (n * n)

CT11_dir_of(u, v) ==
    LET dx == v[1] - u[1]
        dy == v[2] - u[2]
    IN  CASE <<dx, dy>> = <<1, 0>> -> "E"
          [] <<dx, dy>> = <<-1, 0>> -> "W"
          [] <<dx, dy>> = <<0, 1>> -> "N"
          [] <<dx, dy>> = <<0, -1>> -> "S"
          [] OTHER -> "ValueError"

CT11_start_u(n) == <<n, 0>>

CT11_start_v(n) == <<n - 1, 0>>

CT11_start_edge(n) == <<CT11_start_u(n), CT11_start_v(n)>>

dir_between(a, b) == <<b[1] - a[1], b[2] - a[2]>>

CT11_build_town_graph_two_way(n) ==
    LET horizontal ==
            UNION {{<<<<x, y>>, <<x + 1, y>>>>, <<<<x + 1, y>>, <<x, y>>>>} :
                      x \in 0..(n - 1), y \in 0..n}
        vertical ==
            UNION {{<<<<x, y>>, <<x, y + 1>>>>, <<<<x, y + 1>>, <<x, y>>>>} :
                      x \in 0..n, y \in 0..(n - 1)}
    IN  horizontal \cup vertical

\* unit_tests._build_town_graph: the allowed directed unit edges.
CT11_build_town_graph(n) ==
    LET horizontal ==
            UNION {LET a == <<x, y>>
                       b == <<x + 1, y>>
                   IN  IF y = 0 THEN {<<b, a>>}
                       ELSE IF y = n THEN {<<a, b>>}
                       ELSE {<<a, b>>, <<b, a>>} : x \in 0..(n - 1), y \in 0..n}
        vertical ==
            UNION {LET a == <<x, y>>
                       b == <<x, y + 1>>
                   IN  IF x = 0 THEN {<<a, b>>}
                       ELSE IF x = n THEN {<<b, a>>}
                       ELSE {<<a, b>>, <<b, a>>} : x \in 0..n, y \in 0..(n - 1)}
    IN  horizontal \cup vertical

\* The directed edges a vertex sequence walks.
PathEdges(p) == {<<p[i], p[i + 1]>> : i \in 1..(Len(p) - 1)}

\* State after solution() has built the marks and _traverse_full_cycle has
\* initialised path, visited_edges and prev_dir.
CT11_Init ==
    /\ ct11_n \in 1..MaxN11
    /\ ct11_marks = CT11_build_marks(ct11_n)
    /\ ct11_path = <<CT11_start_u(ct11_n), CT11_start_v(ct11_n)>>
    /\ ct11_visited_edges = {CT11_start_edge(ct11_n)}
    /\ ct11_v = CT11_start_v(ct11_n)
    /\ ct11_prev_dir = CT11_dir_of(CT11_start_u(ct11_n), CT11_start_v(ct11_n))
    /\ ct11_status = "walking"
    /\ ct11_turns = <<>>
    /\ ct11_prev_dir_vec = <<0, 0>>
    /\ ct11_i = 0

\* A call _traverse_full_cycle(n, marks) with any set of marked interior
\* points, up to the loop.
CT11_InitAnyMarks ==
    /\ ct11_n \in 1..MaxNWalk
    /\ ct11_marks \in SUBSET ((1..(ct11_n - 1)) \X (1..(ct11_n - 1)))
    /\ ct11_path = <<CT11_start_u(ct11_n), CT11_start_v(ct11_n)>>
    /\ ct11_visited_edges = {CT11_start_edge(ct11_n)}
    /\ ct11_v = CT11_start_v(ct11_n)
    /\ ct11_prev_dir = CT11_dir_of(CT11_start_u(ct11_n), CT11_start_v(ct11_n))
    /\ ct11_status = "walking"
    /\ ct11_turns = <<>>
    /\ ct11_prev_dir_vec = <<0, 0>>
    /\ ct11_i = 0

\* One iteration of the "while True" loop of _traverse_full_cycle.  The
\* break is followed by the defensive edge-count check; when it passes,
\* solution() enters _compress_to_turning_points, whose prologue (turns,
\* prev_dir_vec, loop index) is set up here.
CT11_Step ==
    /\ ct11_status = "walking"
    /\ LET x == ct11_v[1]
           y == ct11_v[2]
           nd == CT11_next_dir(x, y, ct11_prev_dir, ct11_marks, ct11_n)
           w == <<x + DIR_DELTA[nd][1], y + DIR_DELTA[nd][2]>>
           next_edge == <<ct11_v, w>>
           expected == CT11_expected_edge_count(ct11_n)
       IN  IF next_edge = CT11_start_edge(ct11_n)
           THEN /\ IF Cardinality(ct11_visited_edges) # expected
                   THEN /\ ct11_status' = "RuntimeError: wrong edge count"
                        /\ UNCHANGED <<ct11_turns, ct11_prev_dir_vec, ct11_i>>
                   ELSE /\ ct11_status' = "compressing"
                        /\ ct11_turns' = <<ct11_path[1]>>
                        /\ ct11_prev_dir_vec' = dir_between(ct11_path[1], ct11_path[2])
                        /\ ct11_i' = 1
                /\ UNCHANGED <<ct11_path, ct11_visited_edges, ct11_v, ct11_prev_dir>>
           ELSE IF next_edge \in ct11_visited_edges
           THEN /\ ct11_status' = "RuntimeError: cycle repetition"
                /\ UNCHANGED <<ct11_path, ct11_visited_edges, ct11_v, ct11_prev_dir,
                               ct11_turns, ct11_prev_dir_vec, ct11_i>>
           ELSE /\ ct11_visited_edges' = ct11_visited_edges \cup {next_edge}
                /\ ct11_path' = Append(ct11_path, w)
                /\ ct11_v' = w
                /\ ct11_prev_dir' = nd
                /\ ct11_status' =
                      IF Cardinality(ct11_visited_edges') > expected
                      THEN "RuntimeError: exceeded edge count"
                      ELSE "walking"
                /\ UNCHANGED <<ct11_turns, ct11_prev_dir_vec, ct11_i>>
    /\ UNCHANGED <<ct11_n, ct11_marks>>
    /\ UNCHANGED ct11others

\* Mutant of CT11_is_turn: every point of the path is kept.
CT11_is_turn_always(cur_dir_vec, prev_dir_vec) == TRUE

\* Mutant of CT11_is_turn: no intermediate point is kept.
CT11_is_turn_never(cur_dir_vec, prev_dir_vec) == FALSE

\* "if cur_dir_vec != prev_dir_vec"
CT11_is_turn(cur_dir_vec, prev_dir_vec) == cur_dir_vec # prev_dir_vec

\* One iteration of "for i in range(1, len(path) - 1)" of
\* _compress_to_turning_points (ct11_i is the 0-based i, ct11_path[i + 1]
\* is path[i]); when the range is exhausted, the final vertex is appended
\* unless it is already the last turning point, and solution() returns.
CT11_CompressStep ==
    /\ ct11_status = "compressing"
    /\ IF ct11_i < Len(ct11_path) - 1
       THEN LET cur == ct11_path[ct11_i + 1]
                cur_dir_vec == dir_between(ct11_path[ct11_i + 1], ct11_path[ct11_i + 2])
            IN  /\ IF CT11_is_turn(cur_dir_vec, ct11_prev_dir_vec)
                   THEN /\ ct11_turns' = Append(ct11_turns, cur)
                        /\ ct11_prev_dir_vec' = cur_dir_vec
                   ELSE UNCHANGED <<ct11_turns, ct11_prev_dir_vec>>
                /\ ct11_i' = ct11_i + 1
                /\ ct11_status' = ct11_status
       ELSE LET last == ct11_path[Len(ct11_path)]
            IN  /\ ct11_turns' = IF ct11_turns[Len(ct11_turns)] # last
                                 THEN Append(ct11_turns, last)
                                 ELSE ct11_turns
                /\ ct11_status' = "done"
                /\ UNCHANGED <<ct11_prev_dir_vec, ct11_i>>
    /\ UNCHANGED <<ct11_n, ct11_marks, ct11_path, ct11_visited_edges, ct11_v,
                   ct11_prev_dir>>
    /\ UNCHANGED ct11others

(***************************************************************************)
(* CT11 verifier  src/CT11/unit_tests.py                                   *)
(***************************************************************************)
\* seg_axis: 'H' or 'V', or which pytest.fail it raises.
CT11_seg_axis(a, b) ==
    LET dx == b[1] - a[1]
        dy == b[2] - a[2]
    IN  IF dx # 0 /\ dy # 0
        THEN "Points are not axis-aligned (no diagonals allowed)."
        ELSE IF dx = 0 /\ dy = 0
        THEN "Zero-length segment in turning points list"
        ELSE IF dy = 0 THEN "H" ELSE "V"

\* What iteration i (1-based index of the middle point) of the loop of
\* _assert_compressed_turns does: "ok", or the first failure it raises.
CT11_compressed_at(turns, i) ==
    LET axis1 == CT11_seg_axis(turns[i - 1], turns[i])
        axis2 == CT11_seg_axis(turns[i], turns[i + 1])
    IN  IF axis1 \notin {"H", "V"} THEN axis1
        ELSE IF axis2 \notin {"H", "V"} THEN axis2
        ELSE IF axis1 = axis2
        THEN "Intermediate intersections on straight segments must be omitted"
        ELSE "ok"

\* _assert_compressed_turns: "ok", or the message of the first failure.
CT11_assert_compressed_turns(turns) ==
    IF Len(turns) < 2 THEN "At least two turning points are required"
    ELSE LET bad == {i \in 2..(Len(turns) - 1) : CT11_compressed_at(turns, i) # "ok"}
         IN  IF bad = {} THEN "ok"
             ELSE CT11_compressed_at(turns, CHOOSE i \in bad : \A j \in bad : i <= j)

\* "for (x, y) in turns: assert 0 <= x <= n and 0 <= y <= n"
CT11_in_grid(turns, n) ==
    \A k \in DOMAIN turns :
        /\ 0 <= turns[k][1] /\ turns[k][1] <= n
        /\ 0 <= turns[k][2] /\ turns[k][2] <= n

CT11_sign(d) == IF d = 0 THEN 0 ELSE IF d > 0 THEN 1 ELSE -1

\* The points the inner loop of _expand_turning_points appends for the
\* segment from a to b, starting from the last point of full.
CT11_segment_points(last, a, b) ==
    LET dx == b[1] - a[1]
        dy == b[2] - a[2]
        steps == Abs(dx) + Abs(dy)
    IN  [k \in 1..steps |-> <<last[1] + k * CT11_sign(dx),
                              last[2] + k * CT11_sign(dy)>>]

\* _right_turn_or_straight for a prev_dir that is not None.
CT11_right_turn_or_straight(prev_dir, new_dir) ==
    LET straight == prev_dir
        right == DIR_ORDER[(CT11_index(prev_dir) % 4) + 1]
    IN  new_dir = straight \/ new_dir = right

\* What iteration i of the edge loop of the test does with the step
\* path[i] -> path[i + 1] (1-based): "ok", or the assertion that fails.
CT11_step_check(path, i, allowed_edges) ==
    LET u == path[i]
        v == path[i + 1]
    IN  IF Abs(v[1] - u[1]) + Abs(v[2] - u[2]) # 1
        THEN "Consecutive points are not neighbors."
        ELSE IF <<u, v>> \notin allowed_edges
        THEN "Move is not along an allowed street segment."
        ELSE IF \E j \in 1..(i - 1) : <<path[j], path[j + 1]>> = <<u, v>>
        THEN "Street side is used more than once."
        ELSE "ok"

\* Mutant of CT11_coverage_check: the final counts are not compared.
CT11_coverage_unchecked(path, allowed_edges, expected_edge_count) == "pass"

\* The two closing assertions of the test: the number of edge uses, and no
\* allowed edge left unused.
CT11_coverage_check(path, allowed_edges, expected_edge_count) ==
    IF Len(path) - 1 # expected_edge_count
    THEN "The route traverses the wrong number of directed street sides."
    ELSE IF allowed_edges \ PathEdges(path) # {}
    THEN "The route does not use all street sides exactly once."
    ELSE "pass"

\* The test from the edge loop on, for the expanded path: "pass", or the
\* message of the first assertion that fails.
CT11_simulate(path, n) ==
    LET allowed_edges == CT11_build_town_graph(n)
        expected_edge_count == 4 * (n * n)
        steps == 1..(Len(path) - 1)
        bad == {i \in steps : CT11_step_check(path, i, allowed_edges) # "ok"}
        dirs_in_path == [i \in steps |-> CT11_dir_of(path[i], path[i + 1])]
    IN  IF bad # {}
        THEN CT11_step_check(path, CHOOSE i \in bad : \A j \in bad : i <= j,
                             allowed_edges)
        ELSE IF \E i \in 2..(Len(path) - 1) :
                    ~CT11_right_turn_or_straight(dirs_in_path[i - 1], dirs_in_path[i])
        THEN "Only straight or right turns are allowed."
        ELSE CT11_coverage_check(path, allowed_edges, expected_edge_count)

\* The routes that start with the steps of path (used: their edges) and go
\* on along unused allowed edges, straight or to the right, until no such
\* edge is left.
RECURSIVE CT11V_routes_from(_, _, _)
CT11V_routes_from(path, used, allowed_edges) ==
    LET u == path[Len(path) - 1]
        v == path[Len(path)]
        ext == {e \in allowed_edges \ used :
                   /\ e[1] = v
                   /\ CT11_right_turn_or_straight(CT11_dir_of(u, v),
                                                  CT11_dir_of(e[1], e[2]))}
    IN  IF ext = {} THEN {path}
        ELSE UNION {CT11V_routes_from(Append(path, e[2]), used \cup {e},
                                      allowed_edges) : e \in ext}

\* The turning points of a unit-step path: its first and last point and
\* every point where the direction changes.
CT11V_turning_points(path) ==
    LET keep == {1, Len(path)} \cup
                {i \in 2..(Len(path) - 1) :
                    CT11_dir_of(path[i - 1], path[i]) # CT11_dir_of(path[i], path[i + 1])}
    IN  [k \in 1..Cardinality(keep) |->
            path[CHOOSE i \in keep : Cardinality({j \in keep : j <= i}) = k]]

\* A construction for the verifier, for n in 1 .. MaxNRoute: the turning
\* points of a route that starts on any allowed edge and goes on straight
\* or to the right along unused edges for as long as it can.
CT11V_InitRoutes ==
    /\ ct11v_n \in 1..MaxNRoute
    /\ ct11v_turns \in
          {CT11V_turning_points(p) :
              p \in UNION {CT11V_routes_from(<<e[1], e[2]>>, {e},
                                             CT11_build_town_graph(ct11v_n)) :
                              e \in CT11_build_town_graph(ct11v_n)}}
    /\ ct11v_full = <<>>
    /\ ct11v_i = 0
    /\ ct11v_verdict = "start"

\* The verifier before it is given the list solution() returns.
CT11V_Waiting ==
    /\ ct11v_n = 0 /\ ct11v_turns = <<>> /\ ct11v_full = <<>> /\ ct11v_i = 0
    /\ ct11v_verdict = "waiting"

\* A construction for the verifier: every list of 2 .. MaxTurns integer
\* points with coordinates in 0 .. MaxNTurn, against every n in 1 .. MaxNTurn.
CT11V_Init ==
    /\ ct11v_n \in 1..MaxNTurn
    /\ \E len \in 2..MaxTurns :
          ct11v_turns \in [1..len -> (0..MaxNTurn) \X (0..MaxNTurn)]
    /\ ct11v_full = <<>>
    /\ ct11v_i = 0
    /\ ct11v_verdict = "start"

\* The list solution() returned is handed to the test with the same n.
CT11V_Receive ==
    /\ ct11_status = "done"
    /\ ct11v_verdict = "waiting"
    /\ ct11v_n' = ct11_n
    /\ ct11v_turns' = ct11_turns
    /\ ct11v_verdict' = "start"
    /\ UNCHANGED <<ct11v_full, ct11v_i>>
    /\ UNCHANGED ct11vars
    /\ UNCHANGED ct11pipeothers

\* The test up to the call of _expand_turning_points, and the prologue of
\* that function.
CT11V_Start ==
    /\ ct11v_verdict = "start"
    /\ ct11v_verdict' =
          IF CT11_assert_compressed_turns(ct11v_turns) # "ok"
          THEN CT11_assert_compressed_turns(ct11v_turns)
          ELSE IF ~CT11_in_grid(ct11v_turns, ct11v_n)
          THEN "Point lies outside the town grid"
          ELSE "expand"
    /\ ct11v_full' = IF ct11v_verdict' = "expand" THEN <<ct11v_turns[1]>> ELSE <<>>
    /\ ct11v_i' = 0
    /\ UNCHANGED <<ct11v_n, ct11v_turns>>
    /\ UNCHANGED ct11vothers

\* One iteration of "for i in range(len(turns) - 1)" of
\* _expand_turning_points.
CT11V_ExpandSegment ==
    /\ ct11v_verdict = "expand"
    /\ ct11v_i < Len(ct11v_turns) - 1
    /\ LET a == ct11v_turns[ct11v_i + 1]
           b == ct11v_turns[ct11v_i + 2]
       IN  IF CT11_seg_axis(a, b) \notin {"H", "V"}
           THEN /\ ct11v_verdict' = CT11_seg_axis(a, b)
                /\ UNCHANGED <<ct11v_full, ct11v_i>>
           ELSE /\ ct11v_full' = ct11v_full \o
                       CT11_segment_points(ct11v_full[Len(ct11v_full)], a, b)
                /\ ct11v_i' = ct11v_i + 1
                /\ UNCHANGED ct11v_verdict
    /\ UNCHANGED <<ct11v_n, ct11v_turns>>
    /\ UNCHANGED ct11vothers

\* The rest of the test on the expanded path.
CT11V_Simulate ==
    /\ ct11v_verdict = "expand"
    /\ ct11v_i >= Len(ct11v_turns) - 1
    /\ ct11v_verdict' = CT11_simulate(ct11v_full, ct11v_n)
    /\ UNCHANGED <<ct11v_n, ct11v_turns, ct11v_full, ct11v_i>>
    /\ UNCHANGED ct11vothers

(***************************************************************************)
(* CT1  src/CT1/solution.py, src/CT1/unit_tests.py                         *)
(***************************************************************************)
CT1_n_poly(k) == 2 * k

CT1_n_apex(k) == 2 * k

CT1_n_subs(k) == IF k > 1 THEN 4 * (k * k) * (k - 1) ELSE 0

CT1_N(k) == CT1_n_poly(k) + CT1_n_apex(k) + CT1_n_subs(k)

CT1_base_poly == 0

CT1_base_apex(k) == CT1_n_poly(k)

CT1_base_subs(k) == CT1_n_poly(k) + CT1_n_apex(k)

\* (min(u, v), max(u, v)) and sorted((u, v)).
CT1_sorted(u, v) == <<Min2(u, v), Max2(u, v)>>

\* Mutant of CT1_polygon_edge: the wrap-around "% n_poly" is forgotten.
CT1_polygon_edge_nowrap(i, k) ==
    CT1_sorted(CT1_base_poly + i, CT1_base_poly + (i + 1))

\* The polygon edge appended for index i.
CT1_polygon_edge(i, k) ==
    CT1_sorted(CT1_base_poly + i, CT1_base_poly + ((i + 1) % CT1_n_poly(k)))

\* Mutant of CT1_internal: one internal vertex too few per path.
CT1_internal_short(next_sub_idx, k) == [j \in 1..(k - 2) |-> next_sub_idx + j - 1]

\* Mutant of CT1_internal: one internal vertex too many per path.
CT1_internal_long(next_sub_idx, k) == [j \in 1..k |-> next_sub_idx + j - 1]

\* internal = list(range(next_sub_idx, next_sub_idx + (k - 1)))
CT1_internal(next_sub_idx, k) == [j \in 1..(k - 1) |-> next_sub_idx + j - 1]

\* Mutant of CT1_set_entries: only A[u, v] is set.
CT1_set_entries_oneway(u, v) == {<<u, v>>}

\* The entries of A that one edge (u, v) sets to 1.
CT1_set_entries(u, v) == {<<u, v>>, <<v, u>>}

\* The dense branch of the adjacency build followed by astype(int).tolist():
\* row r + 1, column c + 1 of the result is A[r][c].
CT1_build_dense(edges, N) ==
    LET ones == UNION {CT1_set_entries(e[1], e[2]) : e \in Range(edges)}
    IN  [r \in 1..N |-> [c \in 1..N |-> IF <<r - 1, c - 1>> \in ones THEN 1 ELSE 0]]

\* State after construct_graph's argument check (k <= 1 raises) and the
\* prologue of build_adjacency_2k_gon_with_subdivided_fans.
CT1_InitUpTo(maxk) ==
    /\ ct1_k \in 0..maxk
    /\ ct1_edges = <<>>
    /\ ct1_next_sub_idx = CT1_base_subs(ct1_k)
    /\ ct1_i = 0
    /\ ct1_side = 0
    /\ ct1_p = 0
    /\ ct1_internal = <<>>
    /\ ct1_prev = 0
    /\ ct1_phase = IF ct1_k <= 1 THEN "ValueError" ELSE "polygon"
    /\ ct1_A = <<>>
    /\ ct1_path = <<>>

\* One iteration of the polygon loop "for i in range(n_poly)".
CT1_PolygonEdge ==
    /\ ct1_phase = "polygon"
    /\ ct1_edges' = Append(ct1_edges, CT1_polygon_edge(ct1_i, ct1_k))
    /\ IF ct1_i + 1 < CT1_n_poly(ct1_k)
       THEN /\ ct1_i' = ct1_i + 1
            /\ ct1_phase' = ct1_phase
       ELSE /\ ct1_i' = 0
            /\ ct1_phase' = "fans"
    /\ UNCHANGED <<ct1_k, ct1_next_sub_idx, ct1_side, ct1_p, ct1_internal,
                   ct1_prev, ct1_A, ct1_path>>
    /\ UNCHANGED ct1others

\* Entry of one iteration of "for _p in range(k)" for apex index ct1_i and
\* endpoint P_i (ct1_side = 0) or P_ip1 (ct1_side = 1): the internal
\* vertices are allocated and prev starts at the apex.  The constructor is
\* entered with k >= 2 only, so the k == 1 branch is not taken.
CT1_FanPathBegin ==
    /\ ct1_phase = "fans"
    /\ ct1_internal' = CT1_internal(ct1_next_sub_idx, ct1_k)
    /\ ct1_next_sub_idx' = ct1_next_sub_idx + (ct1_k - 1)
    /\ ct1_prev' = CT1_base_apex(ct1_k) + ct1_i
    /\ ct1_phase' = "chain"
    /\ UNCHANGED <<ct1_k, ct1_edges, ct1_i, ct1_side, ct1_p, ct1_A, ct1_path>>
    /\ UNCHANGED ct1others

\* One iteration of "for vtx in internal" (the head of ct1_internal is the
\* next vtx).
CT1_ChainEdge ==
    /\ ct1_phase = "chain"
    /\ ct1_internal # <<>>
    /\ LET vtx == Head(ct1_internal)
       IN  /\ ct1_edges' = Append(ct1_edges, CT1_sorted(ct1_prev, vtx))
           /\ ct1_prev' = vtx
    /\ ct1_internal' = Tail(ct1_internal)
    /\ UNCHANGED <<ct1_k, ct1_next_sub_idx, ct1_i, ct1_side, ct1_p, ct1_phase,
                   ct1_A, ct1_path>>
    /\ UNCHANGED ct1others

\* The last edge (prev, P) of the path, and the advance of the three
\* nested loops (_p, then P in (P_i, P_ip1), then i).
CT1_ChainClose ==
    /\ ct1_phase = "chain"
    /\ ct1_internal = <<>>
    /\ LET n_poly == CT1_n_poly(ct1_k)
           P_i == CT1_base_poly + ct1_i
           P_ip1 == CT1_base_poly + ((ct1_i + 1) % n_poly)
           P == IF ct1_side = 0 THEN P_i ELSE P_ip1
       IN  /\ ct1_edges' = Append(ct1_edges, CT1_sorted(ct1_prev, P))
           /\ IF ct1_p + 1 < ct1_k
              THEN /\ ct1_p' = ct1_p + 1
                   /\ ct1_phase' = "fans"
                   /\ UNCHANGED <<ct1_side, ct1_i>>
              ELSE /\ ct1_p' = 0
                   /\ IF ct1_side = 0
                      THEN /\ ct1_side' = 1
                           /\ ct1_phase' = "fans"
                           /\ ct1_i' = ct1_i
                      ELSE /\ ct1_side' = 0
                           /\ IF ct1_i + 1 < n_poly
                              THEN /\ ct1_i' = ct1_i + 1
                                   /\ ct1_phase' = "fans"
                              ELSE /\ ct1_i' = 0
                                   /\ ct1_phase' = "assert"
    /\ UNCHANGED <<ct1_k, ct1_next_sub_idx, ct1_internal, ct1_prev, ct1_A,
                   ct1_path>>
    /\ UNCHANGED ct1others

\* The indexing assertion, the dense adjacency build and construct_graph's
\* conversion to a list of lists.
CT1_BuildAdjacency ==
    /\ ct1_phase = "assert"
    /\ IF ct1_next_sub_idx # CT1_N(ct1_k)
       THEN /\ ct1_phase' = "AssertionError: Indexing mismatch"
            /\ ct1_A' = ct1_A
       ELSE /\ ct1_phase' = "done"
            /\ ct1_A' = CT1_build_dense(ct1_edges, CT1_N(ct1_k))
    /\ UNCHANGED <<ct1_k, ct1_edges, ct1_next_sub_idx, ct1_i, ct1_side, ct1_p,
                   ct1_internal, ct1_prev, ct1_path>>
    /\ UNCHANGED ct1others

\* ---- verifier side (unit_tests.py) ----

\* _edges_from_adjacency: the pairs (i, j), i < j, with A[i, j] == 1.
CT1_edges_from_adjacency(A) ==
    {<<i, j>> \in (0..(Len(A) - 1)) \X (0..(Len(A) - 1)) :
        i < j /\ A[i + 1][j + 1] = 1}

\* neighbors[v] = np.flatnonzero(A[v])
CT1_neighbors(A, v) == {w \in 0..(Len(A) - 1) : A[v + 1][w + 1] # 0}

\* _is_simple_undirected on a list-of-lists matrix of integers.
CT1_is_simple_undirected(A) ==
    LET n == Len(A)
    IN  /\ \A r \in 1..n : Len(A[r]) = n
        /\ \A r \in 1..n : \A c \in 1..n : A[r][c] = 0 \/ A[r][c] = 1
        /\ \A r \in 1..n : \A c \in 1..n : A[r][c] = A[c][r]
        /\ \A r \in 1..n : A[r][r] = 0

RECURSIVE CT1_edge_dfs_revisits(_, _, _, _, _)
CT1_edge_dfs_revisits(A, target, cur, remaining, visited) ==
    IF remaining = 0 THEN cur = target
    ELSE \E w \in CT1_neighbors(A, cur) :
            IF remaining = 1 THEN w = target
            ELSE /\ w # target
                 /\ CT1_edge_dfs_revisits(A, target, w, remaining - 1, visited)

\* The inner dfs of _edge_in_k_cycle; the visited set is passed down
\* instead of being extended and restored around the recursive call.
RECURSIVE CT1_edge_dfs(_, _, _, _, _)
CT1_edge_dfs(A, target, cur, remaining, visited) ==
    IF remaining = 0 THEN cur = target
    ELSE \E w \in CT1_neighbors(A, cur) :
            IF remaining = 1 THEN w = target
            ELSE /\ w # target
                 /\ w \notin visited
                 /\ CT1_edge_dfs(A, target, w, remaining - 1, visited \cup {w})

CT1_edge_in_k_cycle(A, edge, k) ==
    LET i == Min2(edge[1], edge[2])
        j == Max2(edge[1], edge[2])
        n == Len(A)
    IN  IF k < 3 THEN FALSE
        ELSE IF edge[1] = edge[2] THEN FALSE
        ELSE IF ~(0 <= i /\ i < n /\ 0 <= j /\ j < n) THEN FALSE
        ELSE IF A[i + 1][j + 1] # 1 THEN FALSE
        ELSE CT1_edge_dfs(A, i, j, k - 1, {i, j})

\* _every_edge_in_cycles(A, lengths)
CT1_every_edge_in_cycles(A, lengths) ==
    /\ \A k \in lengths : ~(k < 3 \/ k > Len(A))
    /\ \A e \in CT1_edges_from_adjacency(A) :
          \A k \in lengths : CT1_edge_in_k_cycle(A, e, k)

\* _has_cycle_of_length_k, start of the search at vertex s (vertices with
\* fewer than two neighbours are skipped).
CT1_DfsStart ==
    /\ ct1_phase = "done"
    /\ ct1_path = <<>>
    /\ \E s \in 0..(Len(ct1_A) - 1) :
          /\ Cardinality(CT1_neighbors(ct1_A, s)) >= 2
          /\ ct1_path' = <<s>>
    /\ UNCHANGED <<ct1_k, ct1_edges, ct1_next_sub_idx, ct1_i, ct1_side, ct1_p,
                   ct1_internal, ct1_prev, ct1_phase, ct1_A>>
    /\ UNCHANGED ct1others

\* _has_cycle_of_length_k, one descent of dfs: the path is extended by a
\* neighbour w of its end that is neither the start nor visited.
CT1_DfsExtend ==
    /\ ct1_phase = "done"
    /\ ct1_path # <<>>
    /\ \E w \in CT1_neighbors(ct1_A, ct1_path[Len(ct1_path)]) :
          /\ w \notin Range(ct1_path)
          /\ ct1_path' = Append(ct1_path, w)
    /\ UNCHANGED <<ct1_k, ct1_edges, ct1_next_sub_idx, ct1_i, ct1_side, ct1_p,
                   ct1_internal, ct1_prev, ct1_phase, ct1_A>>
    /\ UNCHANGED ct1others

\* dfs at remaining == 1: the path closes a simple cycle of Len(path)
\* vertices when its end is adjacent to its start.
CT1_path_closes_cycle(A, path) ==
    /\ Len(path) >= 3
    /\ A[path[Len(path)] + 1][path[1] + 1] = 1

(***************************************************************************)
(* CT1 verifier: _parse_construction  src/CT1/unit_tests.py                *)
(*                                                                         *)
(* A matrix handed to the verifier holds numbers that need not be          *)
(* integers: an entry is kept in halves (3 is 1.5, 2 is 1).  The parsed    *)
(* array A holds integers.                                                 *)
(***************************************************************************)
\* int(x) of numpy's conversion to dtype=int, for x = h / 2 >= 0.
CT1_astype_int(h) == h \div 2

\* np.array(obj, dtype=int)
CT1_np_array_int(obj) ==
    [r \in 1..Len(obj) |-> [c \in 1..Len(obj[r]) |-> CT1_astype_int(obj[r][c])]]

\* The matrix as a caller writes it: the integer x is the number x.
CT1_as_object(A) ==
    [r \in 1..Len(A) |-> [c \in 1..Len(A[r]) |-> 2 * A[r][c]]]

\* _is_simple_undirected on the integer array A: "ok", or the message.
\* (A.astype(int) equals A for an integer array.)
CT1_simple_undirected_message(A) ==
    LET n == Len(A)
    IN  IF \E r \in 1..n : Len(A[r]) # n THEN "Adjacency matrix is not square"
        ELSE IF \E r, c \in 1..n : A[r][c] # A[r][c]
        THEN "Adjacency contains non-integer entries"
        ELSE IF \E r, c \in 1..n : ~(A[r][c] = 0 \/ A[r][c] = 1)
        THEN "Adjacency must be 0/1"
        ELSE IF \E r, c \in 1..n : A[r][c] # A[c][r]
        THEN "Adjacency not symmetric (graph should be undirected)"
        ELSE IF \E r \in 1..n : A[r][r] # 0
        THEN "Self-loops are not allowed (diagonal must be zero)"
        ELSE "ok"

\* The list E of _edges_from_adjacency, in the order of its two loops.
CT1_edge_list(A) ==
    LET n == Len(A)
        pairs == [k \in 1..(n * n) |-> <<(k - 1) \div n, (k - 1) % n>>]
    IN  SelectSeq(pairs, LAMBDA e : e[1] < e[2] /\ A[e[1] + 1][e[2] + 1] = 1)

\* index[v] of _adjacency_from_VE, 0-based; -1 when v is not in V.
CT1_index_of(V, v) ==
    IF \E i \in DOMAIN V : V[i] = v
    THEN (CHOOSE i \in DOMAIN V : V[i] = v /\ \A j \in DOMAIN V : V[j] = v => j <= i) - 1
    ELSE -1

\* Mutant of CT1_mark_edge: only A[i, j] is set.
CT1_mark_edge_oneway(A, i, j) == [A EXCEPT ![i + 1][j + 1] = 1]

\* "A[i, j] = 1; A[j, i] = 1"
CT1_mark_edge(A, i, j) == [A EXCEPT ![i + 1][j + 1] = 1, ![j + 1][i + 1] = 1]

\* The symmetric 0/1 matrices of order n with zero diagonal.
CT1_simple_graphs(n) ==
    {A \in [1..n -> [1..n -> {0, 1}]] :
        \A r, c \in 1..n : A[r][c] = A[c][r] /\ A[r][r] = 0}

\* A matrix of order 1 .. MaxNRaw with entries 0, 0.5, 1, ... MaxHalf / 2.
CT1P_InitRaw ==
    /\ \E n \in 1..MaxNRaw : ct1p_obj \in [1..n -> [1..n -> 0..MaxHalf]]
    /\ ct1p_A = <<>>
    /\ ct1p_verdict = "pending"
    /\ ct1p_V = <<>>
    /\ ct1p_E = <<>>
    /\ ct1p_k = 0
    /\ ct1p_A2 = <<>>
    /\ ct1p_verdict2 = "pending"
    /\ ct1p_phase = "parse"

\* The matrix of a simple graph on the vertices 0 .. n - 1, n <= MaxNGraph.
CT1P_InitSimple ==
    /\ \E n \in 1..MaxNGraph :
          \E A \in CT1_simple_graphs(n) : ct1p_obj = CT1_as_object(A)
    /\ ct1p_A = <<>>
    /\ ct1p_verdict = "pending"
    /\ ct1p_V = <<>>
    /\ ct1p_E = <<>>
    /\ ct1p_k = 0
    /\ ct1p_A2 = <<>>
    /\ ct1p_verdict2 = "pending"
    /\ ct1p_phase = "parse"

\* _parse_construction, the matrix branch: A = np.array(obj, dtype=int) and
\* the squareness check.
CT1P_ParseMatrix ==
    /\ ct1p_phase = "parse"
    /\ ct1p_A' = CT1_np_array_int(ct1p_obj)
    /\ ct1p_phase' = IF \E r \in DOMAIN ct1p_obj : Len(ct1p_obj[r]) # Len(ct1p_obj)
                     THEN "Adjacency matrix must be square"
                     ELSE "check"
    /\ UNCHANGED <<ct1p_obj, ct1p_verdict, ct1p_V, ct1p_E, ct1p_k, ct1p_A2,
                   ct1p_verdict2>>
    /\ UNCHANGED ct1pothers

\* "ok, msg = _is_simple_undirected(A); assert ok, msg"
CT1P_CheckSimple ==
    /\ ct1p_phase = "check"
    /\ ct1p_verdict' = CT1_simple_undirected_message(ct1p_A)
    /\ ct1p_phase' = "checked"
    /\ UNCHANGED <<ct1p_obj, ct1p_A, ct1p_V, ct1p_E, ct1p_k, ct1p_A2,
                   ct1p_verdict2>>
    /\ UNCHANGED ct1pothers

\* The accepted graph is written in the form {"V": [0..n-1], "E": edges}
\* and handed to _parse_construction again: the prologue of
\* _adjacency_from_VE.
CT1P_ToVE ==
    /\ ct1p_phase = "checked"
    /\ ct1p_verdict = "ok"
    /\ ct1p_V' = [i \in 1..Len(ct1p_A) |-> i - 1]
    /\ ct1p_E' = CT1_edge_list(ct1p_A)
    /\ ct1p_A2' = [r \in 1..Len(ct1p_A) |-> [c \in 1..Len(ct1p_A) |-> 0]]
    /\ ct1p_k' = 0
    /\ ct1p_phase' = "VE"
    /\ UNCHANGED <<ct1p_obj, ct1p_A, ct1p_verdict, ct1p_verdict2>>
    /\ UNCHANGED ct1pothers

\* One iteration of "for (u, v) in E" of _adjacency_from_VE.
CT1P_AddEdge ==
    /\ ct1p_phase = "VE"
    /\ ct1p_k < Len(ct1p_E)
    /\ LET u == ct1p_E[ct1p_k + 1][1]
           v == ct1p_E[ct1p_k + 1][2]
           i == CT1_index_of(ct1p_V, u)
           j == CT1_index_of(ct1p_V, v)
       IN  IF i = -1 \/ j = -1
           THEN /\ ct1p_phase' = "ValueError: Edge uses a vertex not present in V"
                /\ UNCHANGED <<ct1p_A2, ct1p_k>>
           ELSE IF i = j
           THEN /\ ct1p_phase' = "ValueError: Self-loop detected in E"
                /\ UNCHANGED <<ct1p_A2, ct1p_k>>
           ELSE /\ ct1p_A2' = CT1_mark_edge(ct1p_A2, i, j)
                /\ ct1p_k' = ct1p_k + 1
                /\ UNCHANGED ct1p_phase
    /\ UNCHANGED <<ct1p_obj, ct1p_A, ct1p_verdict, ct1p_V, ct1p_E, ct1p_verdict2>>
    /\ UNCHANGED ct1pothers

\* _adjacency_from_VE returns and _parse_construction checks its result.
CT1P_CheckSimpleVE ==
    /\ ct1p_phase = "VE"
    /\ ct1p_k >= Len(ct1p_E)
    /\ ct1p_verdict2' = CT1_simple_undirected_message(ct1p_A2)
    /\ ct1p_phase' = "done"
    /\ UNCHANGED <<ct1p_obj, ct1p_A, ct1p_verdict, ct1p_V, ct1p_E, ct1p_k, ct1p_A2>>
    /\ UNCHANGED ct1pothers

(***************************************************************************)
(* CT7  src/CT7/solution.py, src/CT7/unit_tests.py                         *)
(***************************************************************************)
\* The values parameters.get('n') can have: an int, a bool (an int subclass
\* whose value is 0 or 1), a float, a string, or None for a missing key.
CT7_Inputs ==
    {[kind |-> "int", val |-> x] : x \in (-1)..MaxN7}
        \cup {[kind |-> "bool", val |-> x] : x \in {0, 1}}
        \cup {[kind |-> "float", val |-> 4], [kind |-> "str", val |-> 0],
              [kind |-> "none", val |-> 0]}

\* isinstance(n, int)
CT7_isinstance_int(inp) == inp.kind \in {"int", "bool"}

\* Mutant of CT7_bad_argument: an n without a solution is rejected like a
\* malformed one.
CT7_bad_argument_or_no_solution(inp) ==
    ~CT7_isinstance_int(inp) \/ inp.val <= 0 \/ inp.val % 4 \notin {0, 1}

\* "if not isinstance(n, int) or n <= 0"
CT7_bad_argument(inp) == ~CT7_isinstance_int(inp) \/ inp.val <= 0

\* Mutant of CT7_exists: the residues 0 and 3 instead of 0 and 1.
CT7_exists_wrong_residue(n) == n % 4 \in {0, 3}

\* The existence condition "n % 4 in (0, 1)".
CT7_exists(n) == n % 4 \in {0, 1}

\* The ordering key of the candidate sort.
CT7_sort_key(ij, n) == Min2(Min2(ij[1], n + 1 - ij[1]), Min2(ij[2], n + 1 - ij[2]))

\* list.sort(key=...): stable, ascending key.
RECURSIVE CT7_stable_sort(_, _, _)
CT7_stable_sort(pairs, n, m) ==
    IF m > n THEN <<>>
    ELSE SelectSeq(pairs, LAMBDA ij : CT7_sort_key(ij, n) = m)
            \o CT7_stable_sort(pairs, n, m + 1)

CT7_pairs_at_off_by_one(i, d, n, pos_free, val_free) ==
    IF ~pos_free[i] THEN <<>>
    ELSE (IF i + d <= n /\ val_free[i + d] THEN <<<<i, i + d>>>> ELSE <<>>)
            \o (IF i - d - 1 >= 1 /\ val_free[i - d - 1]
                THEN <<<<i, i - d - 1>>>> ELSE <<>>)

\* The pairs the d > 0 loop of gen_candidates_for_d appends for position i.
CT7_pairs_at(i, d, n, pos_free, val_free) ==
    IF ~pos_free[i] THEN <<>>
    ELSE (IF i + d <= n /\ val_free[i + d] THEN <<<<i, i + d>>>> ELSE <<>>)
            \o (IF i - d >= 1 /\ val_free[i - d] THEN <<<<i, i - d>>>> ELSE <<>>)

RECURSIVE CT7_pairs_from(_, _, _, _, _)
CT7_pairs_from(i, d, n, pos_free, val_free) ==
    IF i > n THEN <<>>
    ELSE (IF d = 0
          THEN (IF pos_free[i] /\ val_free[i] THEN <<<<i, i>>>> ELSE <<>>)
          ELSE CT7_pairs_at(i, d, n, pos_free, val_free))
            \o CT7_pairs_from(i + 1, d, n, pos_free, val_free)

CT7_gen_candidates_for_d(d, n, pos_free, val_free) ==
    IF d = 0 THEN CT7_pairs_from(1, 0, n, pos_free, val_free)
    ELSE CT7_stable_sort(CT7_pairs_from(1, d, n, pos_free, val_free), n, 1)

CT7_has_intersection_always_required(n, pos_free, val_free, remaining) ==
    \E i \in 1..n : pos_free[i] /\ val_free[i]

CT7_has_intersection_pos_val(n, pos_free, val_free, remaining) ==
    IF 0 \notin remaining THEN TRUE
    ELSE \E i \in 1..n : pos_free[i] /\ val_free[i]

\* choose_next_d: -1 (for None) when nothing remains.  A d without candidates is
\* returned at once (which one depends on the set's iteration order; the
\* caller only tests that its candidate list is empty); otherwise the d
\* with the fewest candidates, the larger d on a tie.
CT7_choose_next_d(n, pos_free, val_free, remaining) ==
    LET c(d) == Len(CT7_gen_candidates_for_d(d, n, pos_free, val_free))
        zero == {d \in remaining : c(d) = 0}
    IN  IF remaining = {} THEN -1
        ELSE IF zero # {} THEN CHOOSE d \in zero : \A e \in zero : d <= e
        ELSE CHOOSE d \in remaining :
                \A e \in remaining : c(d) < c(e) \/ (c(d) = c(e) /\ d >= e)

\* What solution returns: None or a list; "pending" before it returns.
CT7_None == [kind |-> "None", val |-> <<>>]

CT7_list(a) == [kind |-> "list", val |-> a]

CT7_pending == [kind |-> "pending", val |-> <<>>]

\* The search state shared by the calls of backtrack.  Every frame of
\* ct7_stack keeps in "entered" the value it had when the call was entered.
CT7_search_state == <<ct7_a, ct7_pos_free, ct7_val_free, ct7_remaining>>

CT7_remaining_add_forgotten(remaining, d) == remaining

\* remaining.add(d) before the "return False" that follows the loop.
CT7_remaining_add(remaining, d) == remaining \cup {d}

\* A call of solution(parameters) with parameters.get('n') = ct7_input.
CT7_Init ==
    /\ ct7_input \in CT7_Inputs
    /\ ct7_n = 0
    /\ ct7_a = <<>>
    /\ ct7_pos_free = <<>>
    /\ ct7_val_free = <<>>
    /\ ct7_remaining = {}
    /\ ct7_stack = <<>>
    /\ ct7_ret = "none"
    /\ ct7_status = "call"
    /\ ct7_result = CT7_pending

\* solution() up to the call backtrack(0): the argument check, the
\* existence condition, the hardcoded answers, the search state.
CT7_Solution ==
    /\ ct7_status = "call"
    /\ LET n == ct7_input.val
       IN  IF CT7_bad_argument(ct7_input)
           THEN /\ ct7_status' = "ValueError"
                /\ UNCHANGED <<ct7_n, ct7_a, ct7_pos_free, ct7_val_free,
                               ct7_remaining, ct7_stack, ct7_result>>
           ELSE IF ~CT7_exists(n) \/ n = 1 \/ n = 4 \/ n = 5
           THEN /\ ct7_status' = "done"
                /\ ct7_n' = n
                /\ ct7_result' =
                      IF ~CT7_exists(n) THEN CT7_None
                      ELSE IF n = 1 THEN CT7_list(<<1>>)
                      ELSE IF n = 4 THEN CT7_list(<<3, 2, 4, 1>>)
                      ELSE CT7_list(<<4, 2, 5, 3, 1>>)
                /\ UNCHANGED <<ct7_a, ct7_pos_free, ct7_val_free, ct7_remaining,
                               ct7_stack>>
           ELSE /\ ct7_status' = "search"
                /\ ct7_n' = n
                /\ ct7_a' = [i \in 1..n |-> 0]
                /\ ct7_pos_free' = [i \in 0..n |-> TRUE]
                /\ ct7_val_free' = [i \in 0..n |-> TRUE]
                /\ ct7_remaining' = 0..(n - 1)
                /\ ct7_stack' = <<[pc |-> "entry", placed_count |-> 0, d |-> 0,
                                   cands |-> <<>>, idx |-> 0,
                                   entered |-> CT7_search_state']>>
                /\ ct7_result' = ct7_result
    /\ UNCHANGED <<ct7_input, ct7_ret>>
    /\ UNCHANGED ct7others

CT7_undo_pos_free_forgotten(pos_free, i) == pos_free

\* "pos_free[i] = True" of the undo after a failed recursive call.
CT7_undo_pos_free(pos_free, i) == [pos_free EXCEPT ![i] = TRUE]

CT7_top == ct7_stack[Len(ct7_stack)]

CT7_pop == SubSeq(ct7_stack, 1, Len(ct7_stack) - 1)

CT7_set_top(f) == [ct7_stack EXCEPT ![Len(ct7_stack)] = f]

\* backtrack(placed_count) from its entry to the candidate loop: success
\* when everything is placed, the d = 0 prune, the choice of d, and
\* remaining.remove(d) when d has candidates.
CT7_Backtrack ==
    /\ ct7_status = "search"
    /\ ct7_stack # <<>>
    /\ CT7_top.pc = "entry"
    /\ ct7_ret = "none"
    /\ LET f == CT7_top
           d == CT7_choose_next_d(ct7_n, ct7_pos_free, ct7_val_free, ct7_remaining)
           cands == IF d = -1 THEN <<>>
                    ELSE CT7_gen_candidates_for_d(d, ct7_n, ct7_pos_free, ct7_val_free)
       IN  IF f.placed_count = ct7_n
           THEN /\ ct7_ret' = "True"
                /\ ct7_stack' = CT7_pop
                /\ UNCHANGED ct7_remaining
           ELSE IF \/ ~CT7_has_intersection_pos_val(ct7_n, ct7_pos_free,
                                                    ct7_val_free, ct7_remaining)
                   \/ d = -1
                   \/ cands = <<>>
           THEN /\ ct7_ret' = "False"
                /\ ct7_stack' = CT7_pop
                /\ UNCHANGED ct7_remaining
           ELSE /\ ct7_remaining' = ct7_remaining \ {d}
                /\ ct7_stack' = CT7_set_top([f EXCEPT !.pc = "loop", !.d = d,
                                                      !.cands = cands, !.idx = 1])
                /\ UNCHANGED ct7_ret
    /\ UNCHANGED <<ct7_input, ct7_n, ct7_a, ct7_pos_free, ct7_val_free,
                   ct7_status, ct7_result>>
    /\ UNCHANGED ct7others

\* The head of one iteration of "for (i, j) in cands": a candidate that is
\* no longer free is skipped, otherwise it is assigned and backtrack is
\* called for placed_count + 1; after the last candidate, remaining.add(d)
\* and return False.
CT7_TryCandidate ==
    /\ ct7_status = "search"
    /\ ct7_stack # <<>>
    /\ CT7_top.pc = "loop"
    /\ ct7_ret = "none"
    /\ LET f == CT7_top
       IN  IF f.idx > Len(f.cands)
           THEN /\ ct7_remaining' = CT7_remaining_add(ct7_remaining, f.d)
                /\ ct7_ret' = "False"
                /\ ct7_stack' = CT7_pop
                /\ UNCHANGED <<ct7_a, ct7_pos_free, ct7_val_free>>
           ELSE LET i == f.cands[f.idx][1]
                    j == f.cands[f.idx][2]
                IN  IF ~ct7_pos_free[i] \/ ~ct7_val_free[j]
                    THEN /\ ct7_stack' = CT7_set_top([f EXCEPT !.idx = f.idx + 1])
                         /\ UNCHANGED <<ct7_a, ct7_pos_free, ct7_val_free,
                                        ct7_remaining, ct7_ret>>
                    ELSE /\ UNCHANGED ct7_remaining
                         /\ ct7_a' = [ct7_a EXCEPT ![i] = j]
                         /\ ct7_pos_free' = [ct7_pos_free EXCEPT ![i] = FALSE]
                         /\ ct7_val_free' = [ct7_val_free EXCEPT ![j] = FALSE]
                         /\ ct7_stack' =
                               Append(CT7_set_top([f EXCEPT !.pc = "called"]),
                                      [pc |-> "entry",
                                       placed_count |-> f.placed_count + 1,
                                       d |-> 0, cands |-> <<>>, idx |-> 0,
                                       entered |-> CT7_search_state'])
                         /\ UNCHANGED ct7_ret
    /\ UNCHANGED <<ct7_input, ct7_n, ct7_status, ct7_result>>
    /\ UNCHANGED ct7others

\* The recursive call has returned: True is passed up, False undoes the
\* assignment and moves to the next candidate.
CT7_AfterCall ==
    /\ ct7_status = "search"
    /\ ct7_stack # <<>>
    /\ CT7_top.pc = "called"
    /\ ct7_ret # "none"
    /\ LET f == CT7_top
           i == f.cands[f.idx][1]
           j == f.cands[f.idx][2]
       IN  IF ct7_ret = "True"
           THEN /\ ct7_stack' = CT7_pop
                /\ UNCHANGED <<ct7_a, ct7_pos_free, ct7_val_free, ct7_ret>>
           ELSE /\ ct7_a' = [ct7_a EXCEPT ![i] = 0]
                /\ ct7_pos_free' = CT7_undo_pos_free(ct7_pos_free, i)
                /\ ct7_val_free' = [ct7_val_free EXCEPT ![j] = TRUE]
                /\ ct7_stack' = CT7_set_top([f EXCEPT !.pc = "loop",
                                                      !.idx = f.idx + 1])
                /\ ct7_ret' = "none"
    /\ UNCHANGED <<ct7_input, ct7_n, ct7_remaining, ct7_status, ct7_result>>
    /\ UNCHANGED ct7others

\* ok = backtrack(0) has returned: None when the search failed, else a.
CT7_SearchReturn ==
    /\ ct7_status = "search"
    /\ ct7_stack = <<>>
    /\ ct7_ret # "none"
    /\ ct7_result' = IF ct7_ret = "True" THEN CT7_list(ct7_a) ELSE CT7_None
    /\ ct7_status' = "done"
    /\ UNCHANGED <<ct7_input, ct7_n, ct7_a, ct7_pos_free, ct7_val_free,
                   ct7_remaining, ct7_stack, ct7_ret>>
    /\ UNCHANGED ct7others

\* ---- verifier side (unit_tests.py) ----

\* _is_permutation(seq, n) for a sequence of integers: the failure message,
\* or "ok".
CT7_is_permutation(seq, n) ==
    IF Len(seq) # n THEN "Incorrect length"
    ELSE IF \E k \in DOMAIN seq : seq[k] < 1 \/ seq[k] > n
         THEN "Entries must be in the range 1..n."
    ELSE IF Cardinality(Range(seq)) # n THEN "Entries must be distinct"
    ELSE "ok"

\* The list diffs of test_permutation_and_diffs: the positive |a_i - i| in
\* the order of i.
CT7_positive_diffs(a) ==
    LET all == [i \in DOMAIN a |-> Abs(a[i] - i)]
    IN  SelectSeq(all, LAMBDA d : d > 0)

\* test_permutation_and_diffs: "ok" when it passes, else the message.
CT7_test_permutation_and_diffs(a, n) ==
    IF CT7_is_permutation(a, n) # "ok" THEN CT7_is_permutation(a, n)
    ELSE LET diffs == CT7_positive_diffs(a)
         IN  IF Cardinality(Range(diffs)) # Len(diffs)
             THEN "Positive differences are not distinct"
             ELSE "ok"

\* Mutant of CT7_seen_loop: at a collision the later position is reported
\* first.
RECURSIVE CT7_seen_loop_swapped(_, _, _)
CT7_seen_loop_swapped(a, i, seen) ==
    IF i > Len(a) THEN <<>>
    ELSE LET d == Abs(a[i] - i)
         IN  IF d = 0 THEN CT7_seen_loop_swapped(a, i + 1, seen)
             ELSE IF seen[d] # 0 THEN <<i, seen[d], d>>
             ELSE CT7_seen_loop_swapped(a, i + 1, [seen EXCEPT ![d] = i])

\* The reporting loop of test_permutation_and_diffs over i = 1 .. n with
\* the dict seen (0: the displacement is not a key): the triple j, i, d
\* of the pytest.fail message, or <<>> when the loop ends without one.
RECURSIVE CT7_seen_loop(_, _, _)
CT7_seen_loop(a, i, seen) ==
    IF i > Len(a) THEN <<>>
    ELSE LET d == Abs(a[i] - i)
         IN  IF d = 0 THEN CT7_seen_loop(a, i + 1, seen)
             ELSE IF seen[d] # 0 THEN <<seen[d], i, d>>
             ELSE CT7_seen_loop(a, i + 1, [seen EXCEPT ![d] = i])

\* What test_permutation_and_diffs reports when it fails on a collision.
CT7_collision_report(a, n) ==
    IF CT7_test_permutation_and_diffs(a, n) = "Positive differences are not distinct"
    THEN CT7_seen_loop(a, 1, [d \in 1..(Len(a) + Max2(n, 0) + 1) |-> 0])
    ELSE <<>>

\* Mutant of CT7_all_diffs_distinct: only the positive displacements are
\* compared.
CT7_positive_diffs_distinct(res) ==
    Cardinality(Range(CT7_positive_diffs(res))) = Len(CT7_positive_diffs(res))

\* The check of solution.py's __main__ block: all n displacements
\* |res[i] - (i + 1)|, zero included, are distinct.
CT7_all_diffs_distinct(res) ==
    Cardinality({Abs(res[i] - i) : i \in DOMAIN res}) = Len(res)

\* A candidate for the verifier: every permutation of 1..n.
CT7V_Init ==
    /\ ct7v_n \in 1..MaxNPerm
    /\ ct7v_a \in Permutations(1..ct7v_n)
    /\ ct7v_verdict = "pending"
    /\ ct7v_report = <<>>

\* A candidate for the verifier: every integer sequence of length up to
\* MaxNSeq + 1 over 0 .. MaxNSeq + 1, against every n in 0 .. MaxNSeq.
CT7V_InitAnySequence ==
    /\ ct7v_n \in 0..MaxNSeq
    /\ \E len \in 0..(MaxNSeq + 1) : ct7v_a \in [1..len -> 0..(MaxNSeq + 1)]
    /\ ct7v_verdict = "pending"
    /\ ct7v_report = <<>>

CT7V_Verify ==
    /\ ct7v_verdict = "pending"
    /\ ct7v_verdict' = CT7_test_permutation_and_diffs(ct7v_a, ct7v_n)
    /\ ct7v_report' = CT7_collision_report(ct7v_a, ct7v_n)
    /\ UNCHANGED <<ct7v_n, ct7v_a>>
    /\ UNCHANGED ct7vothers

(***************************************************************************)
(* CT15  src/CT15/solution.py, src/CT15/unit_tests.py                      *)
(*                                                                         *)
(* The code computes in binary floating point.  Here lengths are integers  *)
(* in units of 1 / CT15_PS and angles, sines and cosines are integers in   *)
(* units of 1 / CT15_FP; every product is rounded to the nearest unit.     *)
(* The verifier's predicates (orientation signs, crossing parities) are    *)
(* then evaluated exactly on the rounded coordinates.                      *)
(***************************************************************************)
\* Resolution of lengths: units per 1.0.
CT15_PS == 100

\* Resolution of angles, sines and cosines: units per 1.0.
CT15_FP == 10000

\* a / b rounded to the nearest integer, b > 0.
RDiv(a, b) == (2 * a + b) \div (2 * b)

CT15_mulfp(a, b) == RDiv(a * b, CT15_FP)

\* math.pi, as the rounded fraction 355 / 113.
CT15_pi == RDiv(355 * CT15_FP, 113)

\* math.radians
CT15_radians(deg) == RDiv(deg * CT15_pi, 180)

\* math.sin on [-pi/6, pi/6], by its Taylor polynomial of degree 7.
CT15_sin(x) ==
    LET x2 == CT15_mulfp(x, x)
        x3 == CT15_mulfp(x2, x)
        x5 == CT15_mulfp(x3, x2)
        x7 == CT15_mulfp(x5, x2)
    IN  x - RDiv(x3, 6) + RDiv(x5, 120) - RDiv(x7, 5040)

\* math.cos on [-pi/6, pi/6], by its Taylor polynomial of degree 6.
CT15_cos(x) ==
    LET x2 == CT15_mulfp(x, x)
        x4 == CT15_mulfp(x2, x2)
        x6 == CT15_mulfp(x4, x2)
    IN  CT15_FP - RDiv(x2, 2) + RDiv(x4, 24) - RDiv(x6, 720)

\* Mutant of CT15_arc_point: the arc is centred at (0, +R) and bulges away
\* from the top segment.
CT15_arc_point_down(R, a) ==
    <<RDiv(R * CT15_sin(a), CT15_FP), R - RDiv(R * CT15_cos(a), CT15_FP)>>

\* (R * sin(a), -R + R * cos(a))
CT15_arc_point(R, a) ==
    <<RDiv(R * CT15_sin(a), CT15_FP), -R + RDiv(R * CT15_cos(a), CT15_FP)>>

\* _arc_points(n, R, theta_deg), n >= 1: index i of the code is i + 1 here.
CT15_arc_points(n, R, theta_deg) ==
    LET theta == CT15_radians(theta_deg)
        a0 == -RDiv(theta, 2)
        a1 == RDiv(theta, 2)
        a_values == IF n = 1 THEN <<0>>
                    ELSE [i \in 1..n |-> a0 + RDiv((i - 1) * (a1 - a0), n - 1)]
    IN  [i \in 1..n |-> CT15_arc_point(R, a_values[i])]

\* Mutant of CT15_vertex_order: the top-left vertex is left out.
CT15_vertex_order_no_top_left(bottom, top_right, top_left) ==
    bottom \o <<top_right>>

\* poly = bottom + [top_right, top_left]
CT15_vertex_order(bottom, top_right, top_left) ==
    bottom \o <<top_right, top_left>>

\* solution({"n": req}): the polygon.
CT15_solution(req) ==
    LET n == IF req < 1 THEN 1 ELSE req
        R == Max2(10 * CT15_PS, RDiv(6 * n * CT15_PS, 10))
        bottom == CT15_arc_points(n, R, 60)
        x_left_arc == bottom[1][1]
        x_right_arc == bottom[n][1]
        chord_len == Abs(x_right_arc - x_left_arc)
        y_top == IF chord_len > 0 THEN 2 * chord_len ELSE 2 * R
        margin == IF chord_len > 0 THEN RDiv(6 * chord_len, 10) ELSE RDiv(R, 2)
        x_left_top == x_left_arc - margin
        x_right_top == x_right_arc + margin
    IN  CT15_vertex_order(bottom, <<x_right_top, y_top>>, <<x_left_top, y_top>>)

\* ---- verifier side (unit_tests.py) ----

orient(a, b, c) ==
    (b[1] - a[1]) * (c[2] - a[2]) - (b[2] - a[2]) * (c[1] - a[1])

\* on_segment: the 1e-9 tolerances are below the coordinate unit.
on_segment(a, b, p) ==
    IF /\ Min2(a[1], b[1]) <= p[1] /\ p[1] <= Max2(a[1], b[1])
       /\ Min2(a[2], b[2]) <= p[2] /\ p[2] <= Max2(a[2], b[2])
    THEN orient(a, b, p) = 0
    ELSE FALSE

segments_intersect(p1, p2, q1, q2) ==
    LET o1 == orient(p1, p2, q1)
        o2 == orient(p1, p2, q2)
        o3 == orient(q1, q2, p1)
        o4 == orient(q1, q2, p2)
    IN  IF \/ (o1 = 0 /\ on_segment(p1, p2, q1))
           \/ (o2 = 0 /\ on_segment(p1, p2, q2))
           \/ (o3 = 0 /\ on_segment(q1, q2, p1))
           \/ (o4 = 0 /\ on_segment(q1, q2, p2))
        THEN TRUE
        ELSE /\ ((o1 > 0 /\ o2 < 0) \/ (o1 < 0 /\ o2 > 0))
             /\ ((o3 > 0 /\ o4 < 0) \/ (o3 < 0 /\ o4 > 0))

\* poly[(i + 1) % n] for the 1-based index i.
CT15_succ(i, n) == (i % n) + 1

is_simple_polygon(poly) ==
    LET n == Len(poly)
    IN  IF n < 3 THEN FALSE
        ELSE \A i \in 1..n : \A j \in (i + 1)..n :
                \/ j = i + 1
                \/ (i = 1 /\ j = n)
                \/ ~segments_intersect(poly[i], poly[CT15_succ(i, n)],
                                       poly[j], poly[CT15_succ(j, n)])

\* The sign of x_int - x for x_int = x1 + (y - y1) * (x2 - x1) / (y2 - y1),
\* y2 # y1.
CT15_x_int_sign(x, y, x1, y1, x2, y2) ==
    LET den == y2 - y1
        num == (x1 - x) * den + (y - y1) * (x2 - x1)
    IN  IF den > 0 THEN num ELSE -num

\* point_in_polygon: True as soon as an edge holds the point, else the
\* parity of the edges the ray to the right crosses.
point_in_polygon(pt, poly) ==
    LET n == Len(poly)
        x == pt[1]
        y == pt[2]
        x1(i) == poly[i][1]
        y1(i) == poly[i][2]
        x2(i) == poly[CT15_succ(i, n)][1]
        y2(i) == poly[CT15_succ(i, n)][2]
        straddles(i) == (y1(i) > y) # (y2(i) > y)
        sgn(i) == CT15_x_int_sign(x, y, x1(i), y1(i), x2(i), y2(i))
    IN  IF \E i \in 1..n :
              \/ on_segment(poly[i], poly[CT15_succ(i, n)], pt)
              \/ (straddles(i) /\ sgn(i) = 0)
        THEN TRUE
        ELSE Cardinality({i \in 1..n : straddles(i) /\ sgn(i) > 0}) % 2 = 1

\* is_valid_diagonal(i, j, poly) for 1-based i, j.  The midpoint
\* ((a + b) / 2) is tested against the polygon with both doubled.
is_valid_diagonal(i, j, poly) ==
    LET n == Len(poly)
        a == poly[i]
        b == poly[j]
        mid2 == <<a[1] + b[1], a[2] + b[2]>>
        poly2 == [k \in 1..n |-> <<2 * poly[k][1], 2 * poly[k][2]>>]
    IN  IF i = j THEN FALSE
        ELSE IF CT15_succ(i, n) = j \/ CT15_succ(j, n) = i THEN FALSE
        ELSE IF \E k \in 1..n :
                   /\ ~(k = i \/ k = j \/ CT15_succ(k, n) = i \/ CT15_succ(k, n) = j)
                   /\ segments_intersect(a, b, poly[k], poly[CT15_succ(k, n)])
             THEN FALSE
        ELSE point_in_polygon(mid2, poly2)

\* The table valid of count_triangulations.
CT15_valid_table(poly) ==
    LET n == Len(poly)
    IN  [i \in 1..n |-> [j \in 1..n |->
            IF i = j THEN FALSE
            ELSE IF CT15_succ(i, n) = j \/ CT15_succ(j, n) = i THEN TRUE
            ELSE is_valid_diagonal(i, j, poly)]]

\* dp after "for i in range(n - 1): dp[i][i + 1] = 1".
CT15_dp_base(n) ==
    [i \in 1..n |-> [j \in 1..n |-> IF j = i + 1 THEN 1 ELSE 0]]

\* sum of dp[i][k] * dp[k][j] over the split vertices k = lo .. j - 1 with
\* valid[i][k] and valid[k][j].
RECURSIVE CT15_split_sum(_, _, _, _, _)
CT15_split_sum(valid, dp, i, j, k) ==
    IF k >= j THEN 0
    ELSE (IF valid[i][k] /\ valid[k][j] THEN dp[i][k] * dp[k][j] ELSE 0)
            + CT15_split_sum(valid, dp, i, j, k + 1)

CT15_dp_cell_skips_first_split(valid, dp, i, j) ==
    IF ~valid[i][j] THEN 0 ELSE CT15_split_sum(valid, dp, i, j, i + 2)

\* The value the body of the length/i loops stores in dp[i][j].
CT15_dp_cell(valid, dp, i, j) ==
    IF ~valid[i][j] THEN 0 ELSE CT15_split_sum(valid, dp, i, j, i + 1)

\* A request solution({"n": ct15_n}).
CT15_Init ==
    /\ ct15_n \in (-1)..MaxN15
    /\ ct15_poly = <<>>
    /\ ct15_valid = <<>>
    /\ ct15_dp = <<>>
    /\ ct15_length = 0
    /\ ct15_i = 0
    /\ ct15_num = -1
    /\ ct15_phase = "call"

\* The diagonals of a polygon with m vertices, as pairs i < j of 1-based
\* indices that are not neighbours on the boundary.
CT15_diagonals(m) ==
    {d \in (1..m) \X (1..m) :
        d[1] < d[2] /\ d[2] # d[1] + 1 /\ ~(d[1] = 1 /\ d[2] = m)}

\* The table valid of count_triangulations for a polygon with m vertices
\* whose valid diagonals are those of D.
CT15_valid_of(m, D) ==
    [i \in 1..m |-> [j \in 1..m |->
        IF i = j THEN FALSE
        ELSE IF CT15_succ(i, m) = j \/ CT15_succ(j, m) = i THEN TRUE
        ELSE <<i, j>> \in D \/ <<j, i>> \in D]]

\* count_triangulations after its table valid is built and the base cases
\* of dp are set, for a polygon with 3..MaxMDp vertices and any set of
\* valid diagonals.  The vertices are not read again: ct15_poly holds the
\* vertex indices.  ct15_n is the count of the convex polygon.
CT15_InitValid ==
    /\ \E m \in 3..MaxMDp : \E D \in SUBSET CT15_diagonals(m) :
          /\ ct15_poly = [i \in 1..m |-> i]
          /\ ct15_valid = CT15_valid_of(m, D)
          /\ ct15_dp = CT15_dp_base(m)
    /\ ct15_n \in {1, 2, 5, 14}
    /\ ct15_length = 2
    /\ ct15_i = 0
    /\ ct15_num = -1
    /\ ct15_phase = "dp"

CT15_Solution ==
    /\ ct15_phase = "call"
    /\ ct15_poly' = CT15_solution(ct15_n)
    /\ ct15_phase' = "constructed"
    /\ UNCHANGED <<ct15_n, ct15_valid, ct15_dp, ct15_length, ct15_i, ct15_num>>
    /\ UNCHANGED ct15others

\* test_simple_polygon_and_triangulations up to the call of
\* count_triangulations: at least 3 vertices, no two consecutive vertices
\* identical, simple.
CT15_CheckPolygon ==
    /\ ct15_phase = "constructed"
    /\ LET m == Len(ct15_poly)
       IN  ct15_phase' =
              IF m < 3 THEN "fail: fewer than 3 vertices"
              ELSE IF \E i \in 1..m : ct15_poly[i] = ct15_poly[CT15_succ(i, m)]
                   THEN "fail: consecutive vertices identical"
              ELSE IF ~is_simple_polygon(ct15_poly) THEN "fail: not simple"
              ELSE "count"
    /\ UNCHANGED <<ct15_n, ct15_poly, ct15_valid, ct15_dp, ct15_length, ct15_i,
                   ct15_num>>
    /\ UNCHANGED ct15others

\* count_triangulations: the table valid and the base cases of dp (the
\* polygon has at least 3 vertices here, so "return 0" is not taken).
CT15_CountBegin ==
    /\ ct15_phase = "count"
    /\ ct15_valid' = CT15_valid_table(ct15_poly)
    /\ ct15_dp' = CT15_dp_base(Len(ct15_poly))
    /\ ct15_length' = 2
    /\ ct15_i' = 0
    /\ ct15_phase' = "dp"
    /\ UNCHANGED <<ct15_n, ct15_poly, ct15_num>>
    /\ UNCHANGED ct15others

\* One iteration of "for i in range(0, n - length)" inside "for length in
\* range(2, n)" (ct15_i is the 0-based i; dp[i][j] is ct15_dp[i + 1][j + 1]).
CT15_DpCell ==
    /\ ct15_phase = "dp"
    /\ ct15_length < Len(ct15_poly)
    /\ LET m == Len(ct15_poly)
           i == ct15_i + 1
           j == ct15_i + ct15_length + 1
       IN  /\ ct15_dp' = [ct15_dp EXCEPT ![i][j] =
                              CT15_dp_cell(ct15_valid, ct15_dp, i, j)]
           /\ IF ct15_i + 1 < m - ct15_length
              THEN /\ ct15_i' = ct15_i + 1
                   /\ ct15_length' = ct15_length
              ELSE /\ ct15_i' = 0
                   /\ ct15_length' = ct15_length + 1
    /\ UNCHANGED <<ct15_n, ct15_poly, ct15_valid, ct15_num, ct15_phase>>
    /\ UNCHANGED ct15others

\* "return dp[0][n - 1]" and the comparison with parameters["n"].
CT15_Compare ==
    /\ ct15_phase = "dp"
    /\ ct15_length >= Len(ct15_poly)
    /\ ct15_num' = ct15_dp[1][Len(ct15_poly)]
    /\ ct15_phase' = IF ct15_num' = ct15_n THEN "pass" ELSE "fail: wrong count"
    /\ UNCHANGED <<ct15_n, ct15_poly, ct15_valid, ct15_dp, ct15_length, ct15_i>>
    /\ UNCHANGED ct15others

(***************************************************************************)
(* CT6  src/CT6/solution.py                                                *)
(*                                                                         *)
(* A Fraction is a pair <<numerator, denominator>> in lowest terms with a  *)
(* positive denominator; a polynomial is a function from its exponent      *)
(* pairs <<a, b>> to Fractions (the dict of the code).                     *)
(***************************************************************************)
RECURSIVE CT6_gcd(_, _)
CT6_gcd(a, b) == IF b = 0 THEN a ELSE CT6_gcd(b, a % b)

\* Fraction(num, den), den # 0.
Fraction(num, den) ==
    LET g == CT6_gcd(Abs(num), Abs(den))
        sgn == IF den < 0 THEN -1 ELSE 1
    IN  <<(sgn * num) \div g, Abs(den) \div g>>

FracAdd(f, g) == Fraction(f[1] * g[2] + g[1] * f[2], f[2] * g[2])

FracMul(f, g) == Fraction(f[1] * g[1], f[2] * g[2])

\* out.get(k, Fraction(0))
CT6_get(p, k) == IF k \in DOMAIN p THEN p[k] ELSE Fraction(0, 1)

\* _add_poly: a key of q whose sum is 0 is popped.
CT6_add_poly(p, q) ==
    LET val(k) == FracAdd(CT6_get(p, k), CT6_get(q, k))
        keys == (DOMAIN p \ DOMAIN q) \cup {k \in DOMAIN q : val(k)[1] # 0}
    IN  [k \in keys |-> IF k \in DOMAIN q THEN val(k) ELSE p[k]]

\* The sum of c1 * c2 over the pairs of keys in ps.
RECURSIVE CT6_sum_products(_, _, _)
CT6_sum_products(p, q, ps) ==
    IF ps = {} THEN Fraction(0, 1)
    ELSE LET pr == CHOOSE x \in ps : TRUE
         IN  FracAdd(FracMul(p[pr[1]], q[pr[2]]),
                     CT6_sum_products(p, q, ps \ {pr}))

\* _mul_poly: out[k] accumulates c1 * c2 over the pairs of keys that add up
\* to k, and k is popped whenever the accumulated value is 0.
CT6_mul_poly(p, q) ==
    LET pairs(k) == {pr \in (DOMAIN p) \X (DOMAIN q) :
                        <<pr[1][1] + pr[2][1], pr[1][2] + pr[2][2]>> = k}
        sums == {<<k1[1] + k2[1], k1[2] + k2[2]>> : k1 \in DOMAIN p, k2 \in DOMAIN q}
        val(k) == CT6_sum_products(p, q, pairs(k))
    IN  [k \in {k \in sums : val(k)[1] # 0} |-> val(k)]

\* _scale_poly
CT6_scale_poly(p, sc) ==
    [k \in {k \in DOMAIN p : FracMul(p[k], sc)[1] # 0} |-> FracMul(p[k], sc)]

\* The list of (a, b, num, den) over sorted(P.keys()).
CT6_terms(P) ==
    LET d == 1 + Max2(0, CHOOSE x \in {0} \cup {k[1] : k \in DOMAIN P} \cup {k[2] : k \in DOMAIN P} :
                             \A k \in DOMAIN P : k[1] <= x /\ k[2] <= x)
        all == [i \in 1..(d * d) |-> <<(i - 1) \div d, (i - 1) % d>>]
        keys == SelectSeq(all, LAMBDA k : k \in DOMAIN P)
    IN  [i \in 1..Len(keys) |->
            <<keys[i][1], keys[i][2], P[keys[i]][1], P[keys[i]][2]>>]

CT6_X == [k \in {<<1, 0>>} |-> Fraction(1, 1)]

CT6_Y == [k \in {<<0, 1>>} |-> Fraction(1, 1)]

CT6_ONE == [k \in {<<0, 0>>} |-> Fraction(1, 1)]

\* A call solution({"m": m, "n": n}); the function does not read its
\* parameters.
CT6_Init ==
    /\ ct6_m \in 0..MaxMN
    /\ ct6_n \in 0..MaxMN
    /\ ct6_X_plus_Y = <<>>
    /\ ct6_X_plus_Y_sq = <<>>
    /\ ct6_two_X_minus_Y = <<>>
    /\ ct6_S = <<>>
    /\ ct6_P = <<>>
    /\ ct6_terms = <<>>
    /\ ct6_pc = "X_plus_Y"

CT6_AddXY ==
    /\ ct6_pc = "X_plus_Y"
    /\ ct6_X_plus_Y' = CT6_add_poly(CT6_X, CT6_Y)
    /\ ct6_pc' = "X_plus_Y_sq"
    /\ UNCHANGED <<ct6_m, ct6_n, ct6_X_plus_Y_sq, ct6_two_X_minus_Y, ct6_S, ct6_P,
                   ct6_terms>>
    /\ UNCHANGED ct6others

CT6_Square ==
    /\ ct6_pc = "X_plus_Y_sq"
    /\ ct6_X_plus_Y_sq' = CT6_mul_poly(ct6_X_plus_Y, ct6_X_plus_Y)
    /\ ct6_pc' = "two_X_minus_Y"
    /\ UNCHANGED <<ct6_m, ct6_n, ct6_X_plus_Y, ct6_two_X_minus_Y, ct6_S, ct6_P,
                   ct6_terms>>
    /\ UNCHANGED ct6others

CT6_TwoXMinusY ==
    /\ ct6_pc = "two_X_minus_Y"
    /\ ct6_two_X_minus_Y' =
          CT6_scale_poly(CT6_add_poly(CT6_X, CT6_scale_poly(CT6_Y, Fraction(-1, 1))),
                         Fraction(2, 1))
    /\ ct6_pc' = "S"
    /\ UNCHANGED <<ct6_m, ct6_n, ct6_X_plus_Y, ct6_X_plus_Y_sq, ct6_S, ct6_P,
                   ct6_terms>>
    /\ UNCHANGED ct6others

CT6_Sum ==
    /\ ct6_pc = "S"
    /\ ct6_S' = CT6_add_poly(CT6_add_poly(ct6_X_plus_Y_sq, ct6_two_X_minus_Y), CT6_ONE)
    /\ ct6_pc' = "P"
    /\ UNCHANGED <<ct6_m, ct6_n, ct6_X_plus_Y, ct6_X_plus_Y_sq, ct6_two_X_minus_Y,
                   ct6_P, ct6_terms>>
    /\ UNCHANGED ct6others

CT6_Scale ==
    /\ ct6_pc = "P"
    /\ ct6_P' = CT6_scale_poly(ct6_S, Fraction(1, 4))
    /\ ct6_pc' = "terms"
    /\ UNCHANGED <<ct6_m, ct6_n, ct6_X_plus_Y, ct6_X_plus_Y_sq, ct6_two_X_minus_Y,
                   ct6_S, ct6_terms>>
    /\ UNCHANGED ct6others

CT6_Return ==
    /\ ct6_pc = "terms"
    /\ ct6_terms' = CT6_terms(ct6_P)
    /\ ct6_pc' = "done"
    /\ UNCHANGED <<ct6_m, ct6_n, ct6_X_plus_Y, ct6_X_plus_Y_sq, ct6_two_X_minus_Y,
                   ct6_S, ct6_P>>
    /\ UNCHANGED ct6others

(***************************************************************************)
(* CT8  src/CT8/solution.py, src/CT8/unit_tests.py                         *)
(***************************************************************************)
\* col_vertices = list(range(1, n + 1)), 0-based index j.
CT8_col_vertex(j, n) == j + 1

\* row_vertices = [i * (n + 1) for i in range(1, m + 1)], 0-based index i.
CT8_row_vertex(i, n) == (i + 1) * (n + 1)

\* Mutant of CT8_C: one row label too few is left room for.
CT8_C_small(m, n) == (n + 1) * (m + 1)

\* C = (n + 1) * (m + 2)
CT8_C(m, n) == (n + 1) * (m + 2)

\* entries = [int(x) for row in matrix.tolist() for x in row][1:]
CT8_entries(matrix) ==
    LET rows == Len(matrix)
        cols == Len(matrix[1])
        flat == [k \in 1..(rows * cols) |->
                    matrix[((k - 1) \div cols) + 1][((k - 1) % cols) + 1]]
    IN  SubSeq(flat, 2, Len(flat))

\* test_label_range_and_distinct: "ok", or the assertion that fails.
CT8_test_label_range_and_distinct(matrix, m, n) ==
    LET entries == CT8_entries(matrix)
        max_label == m * n + m + n
    IN  IF \E k \in DOMAIN entries : ~(1 <= entries[k] /\ entries[k] <= max_label)
        THEN "Labels must be in range"
        ELSE IF Cardinality(Range(entries)) # Len(entries)
        THEN "Labels are not distinct."
        ELSE "ok"

\* test_magic_property: every total equals the first one, target_sum.
CT8_test_magic_property(matrix, m, n) ==
    LET total(i, j) == matrix[i + 2][j + 2] + matrix[i + 2][1] + matrix[1][j + 2]
        target_sum == total(0, 0)
    IN  IF \A i \in 0..(m - 1) : \A j \in 0..(n - 1) : total(i, j) = target_sum
        THEN "ok"
        ELSE "Magic property violated"

\* A call solution({"m": m, "n": n}).
CT8_Init ==
    /\ ct8_m \in 0..MaxMN
    /\ ct8_n \in 0..MaxMN
    /\ ct8_matrix = <<>>
    /\ ct8_i = 0
    /\ ct8_j = 0
    /\ ct8_pc = "call"
    /\ ct8_verdict = "pending"

\* The same parameters as the call of the CT6 solution.
CT8_InitSameCall == CT8_Init /\ ct8_m = ct6_m /\ ct8_n = ct6_n

\* The argument check and the matrix of zeros.
CT8_Begin ==
    /\ ct8_pc = "call"
    /\ IF ct8_m <= 0 \/ ct8_n <= 0
       THEN /\ ct8_pc' = "ValueError"
            /\ UNCHANGED ct8_matrix
       ELSE /\ ct8_matrix' = [r \in 1..(ct8_m + 1) |-> [c \in 1..(ct8_n + 1) |-> 0]]
            /\ ct8_pc' = "columns"
    /\ UNCHANGED <<ct8_m, ct8_n, ct8_i, ct8_j, ct8_verdict>>
    /\ UNCHANGED ct8others

\* One iteration of "for j in range(n): matrix[0][j + 1] = col_vertices[j]".
CT8_PlaceColumnVertex ==
    /\ ct8_pc = "columns"
    /\ ct8_matrix' = [ct8_matrix EXCEPT ![1][ct8_j + 2] = CT8_col_vertex(ct8_j, ct8_n)]
    /\ IF ct8_j + 1 < ct8_n
       THEN /\ ct8_j' = ct8_j + 1
            /\ UNCHANGED ct8_pc
       ELSE /\ ct8_j' = 0
            /\ ct8_pc' = "rows"
    /\ UNCHANGED <<ct8_m, ct8_n, ct8_i, ct8_verdict>>
    /\ UNCHANGED ct8others

\* One iteration of "for i in range(m): matrix[i + 1][0] = row_vertices[i]".
CT8_PlaceRowVertex ==
    /\ ct8_pc = "rows"
    /\ ct8_matrix' = [ct8_matrix EXCEPT ![ct8_i + 2][1] = CT8_row_vertex(ct8_i, ct8_n)]
    /\ IF ct8_i + 1 < ct8_m
       THEN /\ ct8_i' = ct8_i + 1
            /\ UNCHANGED <<ct8_j, ct8_pc>>
       ELSE /\ ct8_i' = 1
            /\ ct8_j' = 1
            /\ ct8_pc' = "edges"
    /\ UNCHANGED <<ct8_m, ct8_n, ct8_verdict>>
    /\ UNCHANGED ct8others

\* One iteration of the double loop over i in 1..m and j in 1..n:
\* matrix[i][j] = C - matrix[i][0] - matrix[0][j].
CT8_PlaceEdgeLabel ==
    /\ ct8_pc = "edges"
    /\ ct8_matrix' = [ct8_matrix EXCEPT ![ct8_i + 1][ct8_j + 1] =
                         CT8_C(ct8_m, ct8_n) - ct8_matrix[ct8_i + 1][1]
                            - ct8_matrix[1][ct8_j + 1]]
    /\ IF ct8_j < ct8_n
       THEN /\ ct8_j' = ct8_j + 1
            /\ UNCHANGED <<ct8_i, ct8_pc>>
       ELSE IF ct8_i < ct8_m
       THEN /\ ct8_i' = ct8_i + 1
            /\ ct8_j' = 1
            /\ UNCHANGED ct8_pc
       ELSE /\ ct8_pc' = "returned"
            /\ UNCHANGED <<ct8_i, ct8_j>>
    /\ UNCHANGED <<ct8_m, ct8_n, ct8_verdict>>
    /\ UNCHANGED ct8others

\* The returned matrix is handed to the two tests.
CT8_Verify ==
    /\ ct8_pc = "returned"
    /\ ct8_verdict' =
          IF CT8_test_label_range_and_distinct(ct8_matrix, ct8_m, ct8_n) # "ok"
          THEN CT8_test_label_range_and_distinct(ct8_matrix, ct8_m, ct8_n)
          ELSE CT8_test_magic_property(ct8_matrix, ct8_m, ct8_n)
    /\ ct8_pc' = "done"
    /\ UNCHANGED <<ct8_m, ct8_n, ct8_matrix, ct8_i, ct8_j>>
    /\ UNCHANGED ct8others

(***************************************************************************)
(* CT5: src/CT5/solution.py builds a circular sequence of the 2^n - 1       *)
(* non-empty subsets of {1..n}; src/CT5/unit_tests.py checks it.            *)
(***************************************************************************)
\* _base_sequence_n3().
CT5_base_sequence_n3 ==
    <<{1}, {1, 2, 3}, {2}, {2, 3}, {3}, {1, 3}, {1, 2}>>

\* sorted(list(s)) for one set s.
RECURSIVE CT5_sorted(_)
CT5_sorted(S) ==
    IF S = {} THEN <<>>
    ELSE LET lo == CHOOSE x \in S : \A y \in S : x <= y
         IN  <<lo>> \o CT5_sorted(S \ {lo})

\* _to_sorted_lists(seq).
CT5_to_sorted_lists(seq) == [k \in 1..Len(seq) |-> CT5_sorted(seq[k])]

\* expected = (1 << n) - 1.
CT5_expected(n) == 2^n - 1

\* The first descending block of _lift_once lifts the sets of even index i.
CT5_first_block_item(Ai, i, new_elem) ==
    IF i % 2 = 1 THEN Ai ELSE Ai \cup {new_elem}

CT5_second_block_same_flavor(Ai, i, new_elem) ==
    IF i % 2 = 1 THEN Ai ELSE Ai \cup {new_elem}

\* The second descending block lifts the sets of odd index i.
CT5_second_block_item(Ai, i, new_elem) ==
    IF i % 2 = 1 THEN Ai \cup {new_elem} ELSE Ai

\* _normalize_subset(s, n) raises ValueError on an empty subset and on an
\* element outside 1..n.
CT5_normalize_raises(s, n) ==
    \/ Range(s) = {}
    \/ \E x \in Range(s) : x < 1 \/ x > n

\* _normalize_subset(s, n) otherwise returns frozenset(set(s)).
CT5_normalize_subset(s, n) == Range(s)

\* normalized = [_normalize_subset(s, n) for s in construction].
CT5_normalized(construction, n) ==
    [k \in 1..Len(construction) |-> CT5_normalize_subset(construction[k], n)]

\* test_length_and_uniqueness(construction, parameters).
CT5_test_length_and_uniqueness(construction, n) ==
    IF Len(construction) # CT5_expected(n) THEN "fail"
    ELSE IF \E k \in 1..Len(construction) :
               CT5_normalize_raises(construction[k], n)
    THEN "ValueError"
    ELSE IF Cardinality(Range(CT5_normalized(construction, n))) # CT5_expected(n)
    THEN "fail"
    ELSE "pass"

\* _check_intersections_in_circle(seq_sets).
CT5_check_intersections_in_circle(seq_sets) ==
    LET m == Len(seq_sets)
    IN  \A i \in 0..(m - 1) :
           Cardinality(seq_sets[i + 1] \cap seq_sets[((i + 1) % m) + 1]) = 1

\* test_elements_and_neighbor_intersection(construction, parameters).
CT5_test_elements_and_neighbor_intersection(construction, n) ==
    IF \E k \in 1..Len(construction) : CT5_normalize_raises(construction[k], n)
    THEN "ValueError"
    ELSE IF CT5_check_intersections_in_circle(CT5_normalized(construction, n))
    THEN "pass"
    ELSE "fail"

\* A call solution({"n": n}).
CT5_Init ==
    /\ ct5_n \in 0..MaxN5
    /\ ct5_seq = <<>>
    /\ ct5_cur = 0
    /\ ct5_out = <<>>
    /\ ct5_idx = 0
    /\ ct5_pc = "call"
    /\ ct5_result = <<>>
    /\ ct5_verdict = "pending"

\* The argument check, the base sequence and cur = 3.
CT5_Begin ==
    /\ ct5_pc = "call"
    /\ IF ct5_n < 3
       THEN /\ ct5_pc' = "ValueError"
            /\ UNCHANGED <<ct5_seq, ct5_cur>>
       ELSE /\ ct5_seq' = CT5_base_sequence_n3
            /\ ct5_cur' = 3
            /\ ct5_pc' = "while"
    /\ UNCHANGED <<ct5_n, ct5_out, ct5_idx, ct5_result, ct5_verdict>>
    /\ UNCHANGED ct5others

\* "while cur < n" enters _lift_once(seq, cur + 1): out starts with A1.
CT5_LiftStart ==
    /\ ct5_pc = "while"
    /\ ct5_cur < ct5_n
    /\ Len(ct5_seq) >= 1
    /\ ct5_out' = <<ct5_seq[1]>>
    /\ ct5_idx' = Len(ct5_seq) - 1
    /\ ct5_pc' = "first_block"
    /\ UNCHANGED <<ct5_n, ct5_seq, ct5_cur, ct5_result, ct5_verdict>>
    /\ UNCHANGED ct5others

\* One iteration of the first "for idx in range(m - 1, 0, -1)".
CT5_FirstBlock ==
    /\ ct5_pc = "first_block"
    /\ ct5_idx >= 1
    /\ ct5_out' = Append(ct5_out,
                     CT5_first_block_item(ct5_seq[ct5_idx + 1], ct5_idx + 1,
                                          ct5_cur + 1))
    /\ ct5_idx' = ct5_idx - 1
    /\ UNCHANGED <<ct5_n, ct5_seq, ct5_cur, ct5_pc, ct5_result, ct5_verdict>>
    /\ UNCHANGED ct5others

\* out.append({new_elem}) after the first block.
CT5_InsertSingleton ==
    /\ ct5_pc = "first_block"
    /\ ct5_idx = 0
    /\ ct5_out' = Append(ct5_out, {ct5_cur + 1})
    /\ ct5_idx' = Len(ct5_seq) - 1
    /\ ct5_pc' = "second_block"
    /\ UNCHANGED <<ct5_n, ct5_seq, ct5_cur, ct5_result, ct5_verdict>>
    /\ UNCHANGED ct5others

\* One iteration of the second "for idx in range(m - 1, 0, -1)".
CT5_SecondBlock ==
    /\ ct5_pc = "second_block"
    /\ ct5_idx >= 1
    /\ ct5_out' = Append(ct5_out,
                     CT5_second_block_item(ct5_seq[ct5_idx + 1], ct5_idx + 1,
                                           ct5_cur + 1))
    /\ ct5_idx' = ct5_idx - 1
    /\ UNCHANGED <<ct5_n, ct5_seq, ct5_cur, ct5_pc, ct5_result, ct5_verdict>>
    /\ UNCHANGED ct5others

\* The closing A1 | {new_elem}; _lift_once returns, seq = out and cur += 1.
CT5_Close ==
    /\ ct5_pc = "second_block"
    /\ ct5_idx = 0
    /\ ct5_seq' = Append(ct5_out, ct5_seq[1] \cup {ct5_cur + 1})
    /\ ct5_cur' = ct5_cur + 1
    /\ ct5_out' = <<>>
    /\ ct5_pc' = "while"
    /\ UNCHANGED <<ct5_n, ct5_idx, ct5_result, ct5_verdict>>
    /\ UNCHANGED ct5others

\* The loop is over: the length check and "return _to_sorted_lists(seq)".
CT5_Return ==
    /\ ct5_pc = "while"
    /\ ~(ct5_cur < ct5_n)
    /\ IF Len(ct5_seq) # CT5_expected(ct5_n)
       THEN /\ ct5_pc' = "RuntimeError"
            /\ UNCHANGED ct5_result
       ELSE /\ ct5_result' = CT5_to_sorted_lists(ct5_seq)
            /\ ct5_pc' = "returned"
    /\ UNCHANGED <<ct5_n, ct5_seq, ct5_cur, ct5_out, ct5_idx, ct5_verdict>>
    /\ UNCHANGED ct5others

\* The returned list is handed to the two tests.
CT5_Verify ==
    /\ ct5_pc = "returned"
    /\ ct5_verdict' =
          IF CT5_test_length_and_uniqueness(ct5_result, ct5_n) # "pass"
          THEN CT5_test_length_and_uniqueness(ct5_result, ct5_n)
          ELSE CT5_test_elements_and_neighbor_intersection(ct5_result, ct5_n)
    /\ ct5_pc' = "done"
    /\ UNCHANGED <<ct5_n, ct5_seq, ct5_cur, ct5_out, ct5_idx, ct5_result>>
    /\ UNCHANGED ct5others

(***************************************************************************)
(* CT12: src/CT12/solution.py steps through the solutions of                *)
(* t^2 - 3 m^2 = 6 until n = m^2 + 2 exceeds M.                             *)
(***************************************************************************)
\* A call solution({"M": M}) with an integer M; "t, m = 3, 1".
CT12_Init ==
    /\ ct12_M \in 0..MaxM12
    /\ ct12_t = 3
    /\ ct12_m = 1
    /\ ct12_iter = 0
    /\ ct12_n = 0
    /\ ct12_pc = "for"

\* An iteration of the loop that ends in "return n": n = m * m + 2 > M.
CT12_Return ==
    /\ ct12_pc = "for"
    /\ ct12_iter < CT12_safety_bound
    /\ ct12_m * ct12_m + 2 > ct12_M
    /\ ct12_n' = ct12_m * ct12_m + 2
    /\ ct12_pc' = "returned"
    /\ UNCHANGED <<ct12_M, ct12_t, ct12_m, ct12_iter>>
    /\ UNCHANGED ct12others

\* An iteration that goes on: "t, m = 2 * t + 3 * m, t + 2 * m".
CT12_PellStep ==
    /\ ct12_pc = "for"
    /\ ct12_iter < CT12_safety_bound
    /\ ~(ct12_m * ct12_m + 2 > ct12_M)
    /\ ct12_n' = ct12_m * ct12_m + 2
    /\ ct12_t' = 2 * ct12_t + 3 * ct12_m
    /\ ct12_m' = ct12_t + 2 * ct12_m
    /\ ct12_iter' = ct12_iter + 1
    /\ UNCHANGED <<ct12_M, ct12_pc>>
    /\ UNCHANGED ct12others

\* The range is used up: "return m * m + 2" after the loop.
CT12_Fallback ==
    /\ ct12_pc = "for"
    /\ ct12_iter = CT12_safety_bound
    /\ ct12_n' = ct12_m * ct12_m + 2
    /\ ct12_pc' = "returned"
    /\ UNCHANGED <<ct12_M, ct12_t, ct12_m, ct12_iter>>
    /\ UNCHANGED ct12others

(***************************************************************************)
(* CT1 cycle verifier on arbitrary simple graphs: _edge_in_k_cycle,         *)
(* _every_edge_in_cycles, _has_cycle_of_length_k and                        *)
(* _no_cycle_length_multiple_of of src/CT1/unit_tests.py.                   *)
(***************************************************************************)
\* The first element of a non-empty set of integers in ascending order.
CT1_first(S) == CHOOSE x \in S : \A y \in S : x <= y

\* The first pair of a non-empty set of pairs in lexicographic order, the
\* order in which _edges_from_adjacency lists the edges.
CT1_first_edge(E) ==
    CHOOSE e \in E : \A f \in E :
       e[1] < f[1] \/ (e[1] = f[1] /\ e[2] <= f[2])

\* The first invalid length of the list, in list order.
CT1_first_invalid(lengths, n) ==
    lengths[CT1_first({p \in DOMAIN lengths : lengths[p] < 3 \/ lengths[p] > n})]

\* _every_edge_in_cycles(A, lengths) with the message it returns: edges in
\* the order of _edges_from_adjacency, for each edge k over sorted(lengths).
CT1_every_edge_in_cycles_report(A, lengths) ==
    LET n == Len(A)
        edges == CT1_edges_from_adjacency(A)
        fails(e) == {k \in Range(lengths) : ~CT1_edge_in_k_cycle(A, e, k)}
        failing == {e \in edges : fails(e) # {}}
    IN  IF \E p \in DOMAIN lengths : lengths[p] < 3 \/ lengths[p] > n
        THEN [ok |-> FALSE, msg |-> "Requested cycle length is invalid",
              edge |-> <<>>, k |-> CT1_first_invalid(lengths, n)]
        ELSE IF failing # {}
        THEN [ok |-> FALSE,
              msg |-> "Edge is not contained in any simple cycle of length",
              edge |-> CT1_first_edge(failing),
              k |-> CT1_first(fails(CT1_first_edge(failing)))]
        ELSE [ok |-> TRUE, msg |-> "ok", edge |-> <<>>, k |-> 0]

\* The inner dfs of _has_cycle_of_length_k from start s: the path found
\* first, neighbours being tried in ascending order, or <<>> for None.
\* visited is passed down instead of being extended and restored.
RECURSIVE CT1_cycle_dfs(_, _, _, _, _, _)
CT1_cycle_dfs(A, s, cur, remaining, path, visited) ==
    IF remaining = 1
    THEN IF A[cur + 1][s + 1] = 1 THEN path ELSE <<>>
    ELSE LET hits == {w \in CT1_neighbors(A, cur) :
                         /\ w # s
                         /\ w \notin visited
                         /\ CT1_cycle_dfs(A, s, w, remaining - 1,
                                          Append(path, w), visited \cup {w})
                               # <<>>}
         IN  IF hits = {} THEN <<>>
             ELSE CT1_cycle_dfs(A, s, CT1_first(hits), remaining - 1,
                                Append(path, CT1_first(hits)),
                                visited \cup {CT1_first(hits)})

\* "for v in neighbors[s]" of _has_cycle_of_length_k for one start s.
CT1_cycle_from(A, s, k) ==
    LET hits == {v \in CT1_neighbors(A, s) :
                    CT1_cycle_dfs(A, s, v, k - 1, <<s, v>>, {s, v}) # <<>>}
    IN  IF hits = {} THEN <<>>
        ELSE CT1_cycle_dfs(A, s, CT1_first(hits), k - 1,
                           <<s, CT1_first(hits)>>, {s, CT1_first(hits)})

\* _has_cycle_of_length_k(A, k): the cycle found, or <<>> for (False, None).
CT1_has_cycle_of_length_k(A, k) ==
    LET n == Len(A)
        starts == {s \in 0..(n - 1) :
                      /\ Cardinality(CT1_neighbors(A, s)) >= 2
                      /\ CT1_cycle_from(A, s, k) # <<>>}
    IN  IF k < 3 THEN <<>>
        ELSE IF k > n THEN <<>>
        ELSE IF starts = {} THEN <<>>
        ELSE CT1_cycle_from(A, CT1_first(starts), k)

CT1_mod_lengths_first_only(mod, n) ==
    LET start == ((3 + mod - 1) \div mod) * mod
    IN  {k \in start..n : k = start}

\* The lengths of "for k in range(start, n + 1, mod)" with
\* start = ((3 + mod - 1) // mod) * mod.
CT1_mod_lengths(mod, n) ==
    LET start == ((3 + mod - 1) \div mod) * mod
    IN  {k \in start..n : (k - start) % mod = 0}

\* _no_cycle_length_multiple_of(A, mod) with the message it returns.
CT1_no_cycle_length_multiple_of(A, mod) ==
    LET n == Len(A)
        found == {k \in CT1_mod_lengths(mod, n) :
                     CT1_has_cycle_of_length_k(A, k) # <<>>}
    IN  IF mod <= 0
        THEN [ok |-> FALSE, msg |-> "mod must be a positive integer",
              k |-> 0, cyc |-> <<>>]
        ELSE IF found # {}
        THEN [ok |-> FALSE, msg |-> "Found a simple cycle of length",
              k |-> CT1_first(found),
              cyc |-> CT1_has_cycle_of_length_k(A, CT1_first(found))]
        ELSE [ok |-> TRUE, msg |-> "ok", k |-> 0, cyc |-> <<>>]

\* The adjacency matrix on n vertices with the edge set E (pairs i < j).
CT1_graph(n, E) ==
    [r \in 1..n |-> [c \in 1..n |->
        IF <<r - 1, c - 1>> \in E \/ <<c - 1, r - 1>> \in E THEN 1 ELSE 0]]

\* Any simple graph on 1..MaxNCyc vertices; no call yet.
CT1C_Init ==
    /\ \E n \in 1..MaxNCyc :
          \E E \in SUBSET {e \in (0..(n - 1)) \X (0..(n - 1)) : e[1] < e[2]} :
             ct1c_A = CT1_graph(n, E)
    /\ ct1c_fn = "none"
    /\ ct1c_args = <<>>
    /\ ct1c_ret = <<>>

\* A call _edge_in_k_cycle(A, (i, j), k).
CT1C_EdgeInKCycle ==
    /\ ct1c_fn = "none"
    /\ \E i, j \in 0..(Len(ct1c_A) - 1) : \E k \in 2..(MaxNCyc + 1) :
          /\ ct1c_args' = <<i, j, k>>
          /\ ct1c_ret' = <<CT1_edge_in_k_cycle(ct1c_A, <<i, j>>, k)>>
    /\ ct1c_fn' = "_edge_in_k_cycle"
    /\ UNCHANGED ct1c_A
    /\ UNCHANGED ct1cothers

\* A call _every_edge_in_cycles(A, lengths) with a list of up to two lengths.
CT1C_EveryEdgeInCycles ==
    /\ ct1c_fn = "none"
    /\ \E len \in 0..2 : \E lengths \in [1..len -> 2..(MaxNCyc + 1)] :
          /\ ct1c_args' = lengths
          /\ ct1c_ret' = <<CT1_every_edge_in_cycles_report(ct1c_A, lengths)>>
    /\ ct1c_fn' = "_every_edge_in_cycles"
    /\ UNCHANGED ct1c_A
    /\ UNCHANGED ct1cothers

\* A call _has_cycle_of_length_k(A, k).
CT1C_HasCycleOfLengthK ==
    /\ ct1c_fn = "none"
    /\ \E k \in 2..(MaxNCyc + 1) :
          /\ ct1c_args' = <<k>>
          /\ ct1c_ret' = <<CT1_has_cycle_of_length_k(ct1c_A, k)>>
    /\ ct1c_fn' = "_has_cycle_of_length_k"
    /\ UNCHANGED ct1c_A
    /\ UNCHANGED ct1cothers

\* A call _no_cycle_length_multiple_of(A, mod) with an integer mod.
CT1C_NoCycleLengthMultipleOf ==
    /\ ct1c_fn = "none"
    /\ \E mod \in 0..(MaxNCyc + 1) :
          /\ ct1c_args' = <<mod>>
          /\ ct1c_ret' = <<CT1_no_cycle_length_multiple_of(ct1c_A, mod)>>
    /\ ct1c_fn' = "_no_cycle_length_multiple_of"
    /\ UNCHANGED ct1c_A
    /\ UNCHANGED ct1cothers

(***************************************************************************)
(* CT16  src/CT16/solution.py                                              *)
(***************************************************************************)
\* max_iterations = 5000, scaled down.
CT16_max_iterations == 3

CT16_ccw(a, b, c) ==
    (c[2] - a[2]) * (b[1] - a[1]) > (b[2] - a[2]) * (c[1] - a[1])

CT16_segments_intersect(p1, p2, q1, q2) ==
    /\ CT16_ccw(p1, q1, q2) # CT16_ccw(p2, q1, q2)
    /\ CT16_ccw(p1, p2, q1) # CT16_ccw(p1, p2, q2)

\* get_edges, and the list "edges" of _verify: a function of the 0-based
\* edge index; order is 1-based here.
CT16_get_edges(order, n, points) ==
    [i \in 0..(n - 1) |-> <<points[order[i + 1]], points[order[((i + 1) % n) + 1]]>>]

\* "abs(i - j) in (0, 1, n - 1)"
CT16_adjacent(i, j, n) == Abs(i - j) \in {0, 1, n - 1}

\* The non-adjacent pairs of edges (0-based) that intersect.
CT16_crossings(order, n, points) ==
    LET edges == CT16_get_edges(order, n, points)
    IN  {ij \in (0..(n - 1)) \X (0..(n - 1)) :
            /\ ~CT16_adjacent(ij[1], ij[2], n)
            /\ CT16_segments_intersect(edges[ij[1]][1], edges[ij[1]][2],
                                       edges[ij[2]][1], edges[ij[2]][2])}

\* _verify: the message of the pair it returns ("Correct Answer" with True).
CT16_verify(construction, n, points) ==
    IF Len(construction) # n
    THEN "Incorrect. Polygon must have n vertices"
    ELSE IF Range(construction) # DOMAIN points
    THEN "Incorrect. Polygon must use all given points exactly once"
    ELSE IF CT16_crossings(construction, n, points) # {}
    THEN "Incorrect. Edges intersect"
    ELSE "Correct Answer"

\* The pair (i, j), i < j, at which the double loop of solution breaks:
\* the first in the order of the loops; <<-1, -1>> when it runs through.
CT16_first_crossing(order, n, points) ==
    LET X == {ij \in CT16_crossings(order, n, points) : ij[1] < ij[2]}
    IN  IF X = {} THEN <<-1, -1>>
        ELSE CHOOSE ij \in X :
                \A kl \in X : \/ ij[1] < kl[1]
                              \/ ij[1] = kl[1] /\ ij[2] <= kl[2]

\* Mutant of CT16_reverse_slice: the slice is filled with its last element.
CT16_reverse_slice_repeats_last(c, i1, j1) ==
    [p \in 1..Len(c) |->
        IF i1 <= p - 1 /\ p - 1 < j1 THEN c[j1] ELSE c[p]]

\* "construction[i1:j1] = reversed(construction[i1:j1])" for i1 < j1
\* (0-based bounds, c 1-based).
CT16_reverse_slice(c, i1, j1) ==
    [p \in 1..Len(c) |->
        IF i1 <= p - 1 /\ p - 1 < j1 THEN c[(i1 + j1 - p) + 1] ELSE c[p]]

\* The wrap-around reversal: mid = construction[i1:] + construction[:j1],
\* reversed, written back to the positions i1 .. n-1 and then 0 .. j1-1.
CT16_reverse_wrap(c, i1, j1, n) ==
    LET mid == SubSeq(c, i1 + 1, Len(c)) \o SubSeq(c, 1, j1)
        rev == [k \in 1..Len(mid) |-> mid[Len(mid) + 1 - k]]
    IN  [p \in 1..Len(c) |->
            IF i1 <= p - 1 /\ p - 1 < n THEN rev[(p - 1 - i1) + 1]
            ELSE IF p - 1 < j1 THEN rev[(n - i1) + (p - 1) + 1]
            ELSE c[p]]

\* The untangle step for the intersecting edges i and j.
CT16_untangle(c, i, j, n) ==
    LET i1 == (i + 1) % n
        j1 == (j + 1) % n
    IN  IF i1 < j1 THEN CT16_reverse_slice(c, i1, j1)
        ELSE CT16_reverse_wrap(c, i1, j1, n)

\* _generate_random_construction: random.shuffle can leave the keys in any
\* order.
CT16_generate_random_construction(points) ==
    {c \in [1..Cardinality(DOMAIN points) -> DOMAIN points] :
        \A p, q \in DOMAIN c : p # q => c[p] # c[q]}

\* p before q in the order of the pairs (x, y).
CT16_before(p, q) == p[1] < q[1] \/ (p[1] = q[1] /\ p[2] < q[2])

\* solution(parameters) up to the loop, for n = 3 .. MaxN16 distinct grid
\* points with the keys 1 .. n (given in the order of their coordinates;
\* the first construction is any order of the keys).
CT16_Init ==
    /\ ct16_n \in 3..MaxN16
    /\ ct16_points \in {f \in [1..ct16_n -> (0..MaxCoord16) \X (0..MaxCoord16)] :
                          \A k \in 1..(ct16_n - 1) : CT16_before(f[k], f[k + 1])}
    /\ ct16_construction \in CT16_generate_random_construction(ct16_points)
    /\ ct16_iter = 0
    /\ ct16_status = "loop"

\* "ok, _ = _verify(construction, parameters); if ok: return construction"
CT16_ReturnVerified ==
    /\ ct16_status = "loop"
    /\ ct16_iter < CT16_max_iterations
    /\ CT16_verify(ct16_construction, ct16_n, ct16_points) = "Correct Answer"
    /\ ct16_status' = "returned"
    /\ UNCHANGED <<ct16_n, ct16_points, ct16_construction, ct16_iter>>
    /\ UNCHANGED ct16others

\* The rest of an iteration whose order does not verify: the reversal at
\* the first intersecting pair, or a new random order when the double loop
\* finds none.
CT16_Repair ==
    /\ ct16_status = "loop"
    /\ ct16_iter < CT16_max_iterations
    /\ CT16_verify(ct16_construction, ct16_n, ct16_points) # "Correct Answer"
    /\ LET ij == CT16_first_crossing(ct16_construction, ct16_n, ct16_points)
       IN  IF ij # <<-1, -1>>
           THEN ct16_construction' =
                    CT16_untangle(ct16_construction, ij[1], ij[2], ct16_n)
           ELSE ct16_construction' \in
                    CT16_generate_random_construction(ct16_points)
    /\ ct16_iter' = ct16_iter + 1
    /\ UNCHANGED <<ct16_n, ct16_points, ct16_status>>
    /\ UNCHANGED ct16others

\* The loop has run max_iterations times: "return construction" after it.
CT16_Fallback ==
    /\ ct16_status = "loop"
    /\ ct16_iter >= CT16_max_iterations
    /\ ct16_status' = "fallback"
    /\ UNCHANGED <<ct16_n, ct16_points, ct16_construction, ct16_iter>>
    /\ UNCHANGED ct16others

(***************************************************************************)
(* Specifications: one per unit; the other units stay idle.                *)
(***************************************************************************)
CT11_Idle ==
    /\ ct11_n = 0 /\ ct11_marks = {} /\ ct11_path = <<>>
    /\ ct11_visited_edges = {} /\ ct11_v = <<0, 0>> /\ ct11_prev_dir = "E"
    /\ ct11_status = "idle" /\ ct11_turns = <<>> /\ ct11_prev_dir_vec = <<0, 0>>
    /\ ct11_i = 0

CT11V_Idle ==
    /\ ct11v_n = 0 /\ ct11v_turns = <<>> /\ ct11v_full = <<>> /\ ct11v_i = 0
    /\ ct11v_verdict = "idle"

CT1_Idle ==
    /\ ct1_k = 0 /\ ct1_edges = <<>> /\ ct1_next_sub_idx = 0 /\ ct1_i = 0
    /\ ct1_side = 0 /\ ct1_p = 0 /\ ct1_internal = <<>> /\ ct1_prev = 0
    /\ ct1_phase = "idle" /\ ct1_A = <<>> /\ ct1_path = <<>>

CT1P_Idle ==
    /\ ct1p_obj = <<>> /\ ct1p_A = <<>> /\ ct1p_verdict = "idle"
    /\ ct1p_V = <<>> /\ ct1p_E = <<>> /\ ct1p_k = 0 /\ ct1p_A2 = <<>>
    /\ ct1p_verdict2 = "idle" /\ ct1p_phase = "idle"

CT7_Idle ==
    /\ ct7_input = [kind |-> "none", val |-> 0] /\ ct7_n = 0 /\ ct7_a = <<>>
    /\ ct7_pos_free = <<>> /\ ct7_val_free = <<>> /\ ct7_remaining = {}
    /\ ct7_stack = <<>> /\ ct7_ret = "none" /\ ct7_status = "idle"
    /\ ct7_result = CT7_pending

CT7V_Idle ==
    /\ ct7v_n = 0 /\ ct7v_a = <<>> /\ ct7v_verdict = "idle"
    /\ ct7v_report = <<>>

CT6_Idle ==
    /\ ct6_m = 0 /\ ct6_n = 0 /\ ct6_X_plus_Y = <<>> /\ ct6_X_plus_Y_sq = <<>>
    /\ ct6_two_X_minus_Y = <<>> /\ ct6_S = <<>> /\ ct6_P = <<>>
    /\ ct6_terms = <<>> /\ ct6_pc = "idle"

CT8_Idle ==
    /\ ct8_m = 0 /\ ct8_n = 0 /\ ct8_matrix = <<>> /\ ct8_i = 0 /\ ct8_j = 0
    /\ ct8_pc = "idle" /\ ct8_verdict = "idle"

CT5_Idle ==
    /\ ct5_n = 0 /\ ct5_seq = <<>> /\ ct5_cur = 0 /\ ct5_out = <<>>
    /\ ct5_idx = 0 /\ ct5_pc = "idle" /\ ct5_result = <<>>
    /\ ct5_verdict = "idle"

CT12_Idle ==
    /\ ct12_M = 0 /\ ct12_t = 0 /\ ct12_m = 0 /\ ct12_iter = 0 /\ ct12_n = 0
    /\ ct12_pc = "idle"

CT1C_Idle ==
    /\ ct1c_A = <<>> /\ ct1c_fn = "idle" /\ ct1c_args = <<>> /\ ct1c_ret = <<>>

CT16_Idle ==
    /\ ct16_n = 0 /\ ct16_points = <<>> /\ ct16_construction = <<>>
    /\ ct16_iter = 0 /\ ct16_status = "idle"

CT15_Idle ==
    /\ ct15_n = 0 /\ ct15_poly = <<>> /\ ct15_valid = <<>> /\ ct15_dp = <<>>
    /\ ct15_length = 0 /\ ct15_i = 0 /\ ct15_num = -1 /\ ct15_phase = "idle"

InitCT11 ==
    /\ CT11_Init
    /\ CT11V_Waiting
    /\ CT1_Idle
    /\ CT1P_Idle
    /\ CT7_Idle
    /\ CT7V_Idle
    /\ CT15_Idle
    /\ CT6_Idle
    /\ CT8_Idle
    /\ CT5_Idle
    /\ CT12_Idle
    /\ CT1C_Idle
    /\ CT16_Idle

NextCT11 ==
    \/ CT11_Step
    \/ CT11_CompressStep
    \/ CT11V_Receive
    \/ CT11V_Start
    \/ CT11V_ExpandSegment
    \/ CT11V_Simulate

SpecCT11 == InitCT11 /\ [][NextCT11]_vars

InitCT11Verify ==
    /\ CT11_Idle
    /\ CT11V_Init
    /\ CT1_Idle
    /\ CT1P_Idle
    /\ CT7_Idle
    /\ CT7V_Idle
    /\ CT15_Idle
    /\ CT6_Idle
    /\ CT8_Idle
    /\ CT5_Idle
    /\ CT12_Idle
    /\ CT1C_Idle
    /\ CT16_Idle

NextCT11Verify ==
    \/ CT11V_Start
    \/ CT11V_ExpandSegment
    \/ CT11V_Simulate

SpecCT11Verify == InitCT11Verify /\ [][NextCT11Verify]_vars

InitCT1 ==
    /\ CT11_Idle
    /\ CT11V_Idle
    /\ CT1_InitUpTo(MaxK1)
    /\ CT1P_Idle
    /\ CT7_Idle
    /\ CT7V_Idle
    /\ CT15_Idle
    /\ CT6_Idle
    /\ CT8_Idle
    /\ CT5_Idle
    /\ CT12_Idle
    /\ CT1C_Idle
    /\ CT16_Idle

NextCT1 ==
    \/ CT1_PolygonEdge
    \/ CT1_FanPathBegin
    \/ CT1_ChainEdge
    \/ CT1_ChainClose
    \/ CT1_BuildAdjacency

SpecCT1 == InitCT1 /\ [][NextCT1]_vars

InitCT1Cycles ==
    /\ CT11_Idle
    /\ CT11V_Idle
    /\ CT1_InitUpTo(MaxKCycle)
    /\ CT1P_Idle
    /\ CT7_Idle
    /\ CT7V_Idle
    /\ CT15_Idle
    /\ CT6_Idle
    /\ CT8_Idle
    /\ CT5_Idle
    /\ CT12_Idle
    /\ CT1C_Idle
    /\ CT16_Idle

NextCT1Cycles == NextCT1 \/ CT1_DfsStart \/ CT1_DfsExtend

SpecCT1Cycles == InitCT1Cycles /\ [][NextCT1Cycles]_vars

InitCT1ParseMatrix ==
    /\ CT11_Idle
    /\ CT11V_Idle
    /\ CT1_Idle
    /\ CT1P_InitRaw
    /\ CT7_Idle
    /\ CT7V_Idle
    /\ CT15_Idle
    /\ CT6_Idle
    /\ CT8_Idle
    /\ CT5_Idle
    /\ CT12_Idle
    /\ CT1C_Idle
    /\ CT16_Idle

NextCT1ParseMatrix == CT1P_ParseMatrix \/ CT1P_CheckSimple

SpecCT1ParseMatrix == InitCT1ParseMatrix /\ [][NextCT1ParseMatrix]_vars

InitCT1RoundTrip ==
    /\ CT11_Idle
    /\ CT11V_Idle
    /\ CT1_Idle
    /\ CT1P_InitSimple
    /\ CT7_Idle
    /\ CT7V_Idle
    /\ CT15_Idle
    /\ CT6_Idle
    /\ CT8_Idle
    /\ CT5_Idle
    /\ CT12_Idle
    /\ CT1C_Idle
    /\ CT16_Idle

NextCT1RoundTrip ==
    \/ CT1P_ParseMatrix
    \/ CT1P_CheckSimple
    \/ CT1P_ToVE
    \/ CT1P_AddEdge
    \/ CT1P_CheckSimpleVE

SpecCT1RoundTrip == InitCT1RoundTrip /\ [][NextCT1RoundTrip]_vars

InitCT7 ==
    /\ CT11_Idle
    /\ CT11V_Idle
    /\ CT1_Idle
    /\ CT1P_Idle
    /\ CT7_Init
    /\ CT7V_Idle
    /\ CT15_Idle
    /\ CT6_Idle
    /\ CT8_Idle
    /\ CT5_Idle
    /\ CT12_Idle
    /\ CT1C_Idle
    /\ CT16_Idle

NextCT7 ==
    \/ CT7_Solution
    \/ CT7_Backtrack
    \/ CT7_TryCandidate
    \/ CT7_AfterCall
    \/ CT7_SearchReturn

SpecCT7 == InitCT7 /\ [][NextCT7]_vars

InitCT7Verify ==
    /\ CT11_Idle
    /\ CT11V_Idle
    /\ CT1_Idle
    /\ CT1P_Idle
    /\ CT7_Idle
    /\ CT7V_Init
    /\ CT15_Idle
    /\ CT6_Idle
    /\ CT8_Idle
    /\ CT5_Idle
    /\ CT12_Idle
    /\ CT1C_Idle
    /\ CT16_Idle

NextCT7Verify == CT7V_Verify

SpecCT7Verify == InitCT7Verify /\ [][NextCT7Verify]_vars

InitCT7VerifyAny ==
    /\ CT11_Idle
    /\ CT11V_Idle
    /\ CT1_Idle
    /\ CT1P_Idle
    /\ CT7_Idle
    /\ CT7V_InitAnySequence
    /\ CT15_Idle
    /\ CT6_Idle
    /\ CT8_Idle
    /\ CT5_Idle
    /\ CT12_Idle
    /\ CT1C_Idle
    /\ CT16_Idle

NextCT7VerifyAny == CT7V_Verify

SpecCT7VerifyAny == InitCT7VerifyAny /\ [][NextCT7VerifyAny]_vars

InitCT6 ==
    /\ CT11_Idle
    /\ CT11V_Idle
    /\ CT1_Idle
    /\ CT1P_Idle
    /\ CT7_Idle
    /\ CT7V_Idle
    /\ CT15_Idle
    /\ CT6_Init
    /\ CT8_Idle
    /\ CT5_Idle
    /\ CT12_Idle
    /\ CT1C_Idle
    /\ CT16_Idle

NextCT6 ==
    \/ CT6_AddXY
    \/ CT6_Square
    \/ CT6_TwoXMinusY
    \/ CT6_Sum
    \/ CT6_Scale
    \/ CT6_Return

SpecCT6 == InitCT6 /\ [][NextCT6]_vars

InitCT8 ==
    /\ CT11_Idle
    /\ CT11V_Idle
    /\ CT1_Idle
    /\ CT1P_Idle
    /\ CT7_Idle
    /\ CT7V_Idle
    /\ CT15_Idle
    /\ CT6_Idle
    /\ CT8_Init
    /\ CT5_Idle
    /\ CT12_Idle
    /\ CT1C_Idle
    /\ CT16_Idle

NextCT8 ==
    \/ CT8_Begin
    \/ CT8_PlaceColumnVertex
    \/ CT8_PlaceRowVertex
    \/ CT8_PlaceEdgeLabel
    \/ CT8_Verify

SpecCT8 == InitCT8 /\ [][NextCT8]_vars

\* One call solution({"m": m, "n": n}) of the CT6 unit and one of the CT8
\* unit, interleaved.
InitCT6CT8 ==
    /\ CT11_Idle
    /\ CT11V_Idle
    /\ CT1_Idle
    /\ CT1P_Idle
    /\ CT7_Idle
    /\ CT7V_Idle
    /\ CT15_Idle
    /\ CT6_Init
    /\ CT8_InitSameCall
    /\ CT5_Idle
    /\ CT12_Idle
    /\ CT1C_Idle
    /\ CT16_Idle

NextCT6CT8 == NextCT6 \/ NextCT8

SpecCT6CT8 == InitCT6CT8 /\ [][NextCT6CT8]_vars

InitCT15 ==
    /\ CT11_Idle
    /\ CT11V_Idle
    /\ CT1_Idle
    /\ CT1P_Idle
    /\ CT7_Idle
    /\ CT7V_Idle
    /\ CT15_Init
    /\ CT6_Idle
    /\ CT8_Idle
    /\ CT5_Idle
    /\ CT12_Idle
    /\ CT1C_Idle
    /\ CT16_Idle

NextCT15 ==
    \/ CT15_Solution
    \/ CT15_CheckPolygon
    \/ CT15_CountBegin
    \/ CT15_DpCell
    \/ CT15_Compare

SpecCT15 == InitCT15 /\ [][NextCT15]_vars

InitCT5 ==
    /\ CT11_Idle
    /\ CT11V_Idle
    /\ CT1_Idle
    /\ CT1P_Idle
    /\ CT7_Idle
    /\ CT7V_Idle
    /\ CT15_Idle
    /\ CT6_Idle
    /\ CT8_Idle
    /\ CT5_Init
    /\ CT12_Idle
    /\ CT1C_Idle
    /\ CT16_Idle

NextCT5 ==
    \/ CT5_Begin
    \/ CT5_LiftStart
    \/ CT5_FirstBlock
    \/ CT5_InsertSingleton
    \/ CT5_SecondBlock
    \/ CT5_Close
    \/ CT5_Return
    \/ CT5_Verify

SpecCT5 == InitCT5 /\ [][NextCT5]_vars

InitCT12 ==
    /\ CT11_Idle
    /\ CT11V_Idle
    /\ CT1_Idle
    /\ CT1P_Idle
    /\ CT7_Idle
    /\ CT7V_Idle
    /\ CT15_Idle
    /\ CT6_Idle
    /\ CT8_Idle
    /\ CT5_Idle
    /\ CT12_Init
    /\ CT1C_Idle
    /\ CT16_Idle

NextCT12 ==
    \/ CT12_Return
    \/ CT12_PellStep
    \/ CT12_Fallback

SpecCT12 == InitCT12 /\ [][NextCT12]_vars

InitCT1CycleVerifier ==
    /\ CT11_Idle
    /\ CT11V_Idle
    /\ CT1_Idle
    /\ CT1P_Idle
    /\ CT7_Idle
    /\ CT7V_Idle
    /\ CT15_Idle
    /\ CT6_Idle
    /\ CT8_Idle
    /\ CT5_Idle
    /\ CT12_Idle
    /\ CT1C_Init
    /\ CT16_Idle

NextCT1CycleVerifier ==
    \/ CT1C_EdgeInKCycle
    \/ CT1C_EveryEdgeInCycles
    \/ CT1C_HasCycleOfLengthK
    \/ CT1C_NoCycleLengthMultipleOf

SpecCT1CycleVerifier == InitCT1CycleVerifier /\ [][NextCT1CycleVerifier]_vars

InitCT15Count ==
    /\ CT11_Idle
    /\ CT11V_Idle
    /\ CT1_Idle
    /\ CT1P_Idle
    /\ CT7_Idle
    /\ CT7V_Idle
    /\ CT15_InitValid
    /\ CT6_Idle
    /\ CT8_Idle
    /\ CT5_Idle
    /\ CT12_Idle
    /\ CT1C_Idle
    /\ CT16_Idle

NextCT15Count == CT15_DpCell \/ CT15_Compare

SpecCT15Count == InitCT15Count /\ [][NextCT15Count]_vars

InitCT11Walk ==
    /\ CT11_InitAnyMarks
    /\ CT11V_Idle
    /\ CT1_Idle
    /\ CT1P_Idle
    /\ CT7_Idle
    /\ CT7V_Idle
    /\ CT15_Idle
    /\ CT6_Idle
    /\ CT8_Idle
    /\ CT5_Idle
    /\ CT12_Idle
    /\ CT1C_Idle
    /\ CT16_Idle

NextCT11Walk == CT11_Step

\* The loop of _traverse_full_cycle runs on as long as it can.
SpecCT11Walk == InitCT11Walk /\ [][NextCT11Walk]_vars /\ WF_vars(CT11_Step)

\* solution has been called and has neither returned nor raised: exactly
\* the states in which a step of NextCT7 is possible.
CT7_running == ct7_status \in {"call", "search"}

\* The call of solution runs on until it returns or raises: weak fairness
\* of NextCT7, WF_vars(NextCT7), with ENABLED <<NextCT7>>_vars written out
\* as CT7_running.
SpecCT7Terminates ==
    /\ InitCT7
    /\ [][NextCT7]_vars
    /\ (<>[]CT7_running => []<><<NextCT7>>_vars)

InitCT11VerifyRoutes ==
    /\ CT11_Idle
    /\ CT11V_InitRoutes
    /\ CT1_Idle
    /\ CT1P_Idle
    /\ CT7_Idle
    /\ CT7V_Idle
    /\ CT15_Idle
    /\ CT6_Idle
    /\ CT8_Idle
    /\ CT5_Idle
    /\ CT12_Idle
    /\ CT1C_Idle
    /\ CT16_Idle

NextCT11VerifyRoutes ==
    \/ CT11V_Start
    \/ CT11V_ExpandSegment
    \/ CT11V_Simulate

SpecCT11VerifyRoutes == InitCT11VerifyRoutes /\ [][NextCT11VerifyRoutes]_vars

InitCT16 ==
    /\ CT11_Idle
    /\ CT11V_Idle
    /\ CT1_Idle
    /\ CT1P_Idle
    /\ CT7_Idle
    /\ CT7V_Idle
    /\ CT15_Idle
    /\ CT6_Idle
    /\ CT8_Idle
    /\ CT5_Idle
    /\ CT12_Idle
    /\ CT1C_Idle
    /\ CT16_Init

NextCT16 ==
    \/ CT16_ReturnVerified
    \/ CT16_Repair
    \/ CT16_Fallback

SpecCT16 == InitCT16 /\ [][NextCT16]_vars

(***************************************************************************)
(* Properties                                                              *)
(***************************************************************************)

\* C1 (CT11): for every n >= 1 the simulation never raises, and once the
\* walk is back at the start edge it has traversed each of the 4*n^2
\* allowed directed edges exactly once and ends where it started.
C1_TourCoversAllEdges ==
    /\ ct11_status \in {"idle", "walking", "compressing", "done"}
    /\ ct11_status \in {"compressing", "done"} =>
          /\ Len(ct11_path) - 1 = 4 * ct11_n * ct11_n
          /\ Cardinality(PathEdges(ct11_path)) = 4 * ct11_n * ct11_n
          /\ PathEdges(ct11_path) = CT11_build_town_graph(ct11_n)
          /\ ct11_path[Len(ct11_path)] = ct11_path[1]

\* C2 (CT1): in the constructed graph every edge lies on a simple cycle of
\* length exactly 2k and on a simple cycle of length exactly 2k+1.
C2_EveryEdgeOnEvenAndOddCycle ==
    ct1_phase = "done" =>
        /\ CT1_edges_from_adjacency(ct1_A) # {}
        /\ CT1_every_edge_in_cycles(ct1_A, {2 * ct1_k, 2 * ct1_k + 1})

C2_Witness ==
    /\ ct1_phase = "done"
    /\ ct1_k > 2
    /\ CT1_edge_in_k_cycle(ct1_A, <<0, 1>>, 2 * ct1_k)
    /\ CT1_edge_in_k_cycle(ct1_A, <<0, 1>>, 2 * ct1_k + 1)
    /\ ~CT1_edge_in_k_cycle(ct1_A, <<0, 1>>, 2 * ct1_k - 1)

\* C3 (CT1): no simple cycle of the constructed graph, of any length up to
\* the vertex count N, has a length that is a positive multiple of 2k-1.
C3_NoCycleLengthMultipleOfMod ==
    (ct1_path # <<>> /\ CT1_path_closes_cycle(ct1_A, ct1_path)) =>
        Len(ct1_path) % (2 * ct1_k - 1) # 0

C3_Witness ==
    /\ ct1_path # <<>>
    /\ CT1_path_closes_cycle(ct1_A, ct1_path)
    /\ Len(ct1_path) = 4 * ct1_k * ct1_k

\* C9 (CT1): the graph has N = 2k + 2k + 4k^2(k-1) vertices (24 for k = 2);
\* polygon vertices are [0,2k), apex vertices [2k,4k), subdivision vertices
\* the rest; every subdivision index is allocated fresh, in range, and ends
\* up on exactly one path, so the indexing assertion never fails.
C9_IndexingExhaustsN ==
    LET k == ct1_k
        N == 2 * k + 2 * k + 4 * k * k * (k - 1)
        used == UNION {{e[1], e[2]} : e \in Range(ct1_edges)}
        deg(v) == Cardinality(CT1_neighbors(ct1_A, v))
    IN  /\ ct1_phase # "AssertionError: Indexing mismatch"
        /\ ct1_phase = "chain" =>
              \A j \in DOMAIN ct1_internal :
                  /\ 4 * k <= ct1_internal[j] /\ ct1_internal[j] < N
                  /\ ct1_internal[j] \notin used
                  /\ \A h \in DOMAIN ct1_internal :
                        h # j => ct1_internal[h] # ct1_internal[j]
        /\ ct1_phase = "done" =>
              /\ Len(ct1_A) = N
              /\ ct1_next_sub_idx = N
              /\ k = 2 => N = 24
              /\ \A v \in 0..(2 * k - 1) :
                    {(v + 1) % (2 * k), (v + 2 * k - 1) % (2 * k)}
                        = CT1_neighbors(ct1_A, v) \cap (0..(2 * k - 1))
              /\ \A v \in (2 * k)..(4 * k - 1) :
                    /\ deg(v) = 2 * k
                    /\ CT1_neighbors(ct1_A, v) \subseteq (4 * k)..(N - 1)
              /\ \A v \in (4 * k)..(N - 1) : deg(v) = 2

C9_Witness ==
    /\ ct1_phase = "done"
    /\ ct1_k = 2
    /\ Len(ct1_A) = 24
    /\ ct1_next_sub_idx = 24

\* C10 (CT1): the returned matrix is square N x N with entries 0 or 1,
\* symmetric, with a zero diagonal, and has at least one edge.
C10_SimpleUndirectedNontrivial ==
    ct1_phase = "done" =>
        /\ Len(ct1_A) = CT1_N(ct1_k)
        /\ CT1_is_simple_undirected(ct1_A)
        /\ Cardinality(CT1_edges_from_adjacency(ct1_A)) >= 1

C10_Witness ==
    /\ ct1_phase = "done"
    /\ ct1_k > 2
    /\ ct1_A[1][2] = 1
    /\ ct1_A[2][1] = 1
    /\ ct1_A[1][3] = 0

\* C4 (CT7): for a positive integer n with n mod 4 in {0,1}, solution
\* returns a list, never None, of length n that is a bijection on 1..n
\* with pairwise distinct positive displacements |a_i - i| (it passes
\* test_permutation_and_diffs); for n = 1, 4, 5 the list is the hardcoded
\* one.
C4_ReturnsValidPermutation ==
    (ct7_status = "done" /\ ct7_input.val % 4 \in {0, 1}) =>
        /\ ct7_result.kind = "list"
        /\ Len(ct7_result.val) = ct7_input.val
        /\ Range(ct7_result.val) = 1..ct7_input.val
        /\ CT7_test_permutation_and_diffs(ct7_result.val, ct7_input.val) = "ok"
        /\ ct7_input.val = 1 => ct7_result.val = <<1>>
        /\ ct7_input.val = 4 => ct7_result.val = <<3, 2, 4, 1>>
        /\ ct7_input.val = 5 => ct7_result.val = <<4, 2, 5, 3, 1>>

C4_Witness ==
    /\ ct7_status = "done"
    /\ ct7_input = [kind |-> "int", val |-> 12]
    /\ ct7_ret = "True"
    /\ ct7_result.kind = "list"
    /\ CT7_test_permutation_and_diffs(ct7_result.val, 12) = "ok"

\* C5 (CT7), as stated: for n mod 4 in {2,3} no permutation of 1..n passes
\* test_permutation_and_diffs, that is, a passing permutation has
\* n mod 4 in {0,1}.
C5_NoPermutationPassesVerifier ==
    ct7v_verdict = "ok" => ct7v_n % 4 \in {0, 1}

\* C5 (CT7), amended: for n mod 4 in {2,3} no permutation of 1..n has all
\* n displacements |a_i - i|, zero included, pairwise distinct; the
\* permutations the verifier passes for such n all have a repeated
\* displacement.
C5_NoPermutationWithAllDisplacementsDistinct ==
    (ct7v_verdict # "pending" /\ ct7v_n % 4 \in {2, 3}) =>
        ~CT7_all_diffs_distinct(ct7v_a)

C5_Witness ==
    /\ ct7v_verdict = "ok"
    /\ ct7v_n = 6
    /\ ct7v_a[1] # 1
    /\ ~CT7_all_diffs_distinct(ct7v_a)

\* C6 (CT7): non-existence is a return value, not an error.  For a positive
\* integer n with n mod 4 in {2,3} the call ends returning None without
\* raising; a search that fails returns None; ValueError is raised only
\* when n is not a positive integer.
C6_NoSolutionIsNotAnError ==
    /\ ct7_status \in {"idle", "call", "search", "done", "ValueError"}
    /\ (/\ ct7_status # "call"
        /\ ct7_input.kind = "int"
        /\ ct7_input.val > 0
        /\ ct7_input.val % 4 \in {2, 3}) =>
            (ct7_status = "done" /\ ct7_result = CT7_None)
    /\ (ct7_status = "done" /\ ct7_ret = "False") => ct7_result = CT7_None
    /\ ct7_status = "ValueError" =>
            ~(ct7_input.kind = "int" /\ ct7_input.val > 0)

C6_Witness ==
    /\ ct7_status = "done"
    /\ ct7_input = [kind |-> "int", val |-> 7]
    /\ ct7_result = CT7_None
    /\ ct7_stack = <<>>

\* C7 (CT15): for a requested n >= 1, count_triangulations of the polygon
\* solution returns is exactly n, so test_simple_polygon_and_triangulations
\* passes.
C7_TriangulationCountIsN ==
    (ct15_n >= 1 /\ ct15_phase \notin {"idle", "call", "constructed", "count", "dp"}) =>
        /\ ct15_phase = "pass"
        /\ ct15_num = ct15_n

C7_Witness ==
    /\ ct15_phase = "pass"
    /\ ct15_n = 5
    /\ ct15_num = 5
    /\ ct15_dp[1][Len(ct15_poly)] = 5

\* C8 (CT15), as stated: the polygon solution returns for a requested n has
\* n vertices.
C8_PolygonHasNVertices ==
    ct15_phase \notin {"idle", "call"} => Len(ct15_poly) = ct15_n

\* C8 (CT15), amended: the polygon has max(n, 1) + 2 vertices: max(n, 1)
\* arc vertices, left to right, then the top-right and the top-left vertex
\* on one horizontal line above the arc.
C8_PolygonHasNPlusTwoVertices ==
    ct15_phase \notin {"idle", "call"} =>
        LET n == Max2(ct15_n, 1)
            m == Len(ct15_poly)
        IN  /\ m = n + 2
            /\ \A i \in 1..(n - 1) : ct15_poly[i][1] < ct15_poly[i + 1][1]
            /\ \A i \in 1..n : ct15_poly[i][2] <= 0
            /\ ct15_poly[m][2] = ct15_poly[m - 1][2]
            /\ ct15_poly[m][2] > 0
            /\ ct15_poly[m][1] < ct15_poly[1][1]
            /\ ct15_poly[m - 1][1] > ct15_poly[n][1]

C8_Witness ==
    /\ ct15_phase = "constructed"
    /\ ct15_n = 5
    /\ Len(ct15_poly) = 7

\* C11 (CT7 verifier): test_permutation_and_diffs passes on a and n exactly
\* when a has length n, is a bijection on 1..n and no two positions have
\* the same nonzero displacement |a_i - i|; when it fails on a collision
\* the reported positions j < i are the first colliding pair: i is the
\* least position with an equal nonzero displacement before it, and j is
\* the least position with that displacement.
C11_VerifierPassesIffValid ==
    ct7v_verdict \notin {"idle", "pending"} =>
        LET a == ct7v_a
            d(i) == Abs(a[i] - i)
            collide(j, i) == j < i /\ d(i) > 0 /\ d(j) = d(i)
        IN  /\ ct7v_verdict = "ok" <=>
                  /\ Len(a) = ct7v_n
                  /\ Range(a) = 1..ct7v_n
                  /\ \A i, j \in DOMAIN a : ~collide(j, i)
            /\ ct7v_verdict = "Positive differences are not distinct" =>
                  /\ Len(ct7v_report) = 3
                  /\ LET j == ct7v_report[1]
                         i == ct7v_report[2]
                     IN  /\ j \in DOMAIN a /\ i \in DOMAIN a
                         /\ collide(j, i)
                         /\ ct7v_report[3] = d(i)
                         /\ \A i2, j2 \in DOMAIN a :
                               collide(j2, i2) => (i <= i2 /\ (i2 = i => j <= j2))
            /\ ct7v_verdict # "Positive differences are not distinct" =>
                  ct7v_report = <<>>

C11_Witness ==
    /\ ct7v_verdict = "Positive differences are not distinct"
    /\ ct7v_n = 4
    /\ ct7v_a = <<2, 1, 4, 3>>
    /\ ct7v_report = <<1, 2, 1>>

\* C12 (CT11): in the turning-point list solution returns, every two
\* consecutive segments lie on different axes, one horizontal and one
\* vertical, so no listed point is an intermediate point of a straight
\* segment and _assert_compressed_turns passes.
C12_TurnsAlternateAxis ==
    ct11_status = "done" =>
        /\ Len(ct11_turns) >= 2
        /\ \A i \in 2..(Len(ct11_turns) - 1) :
              LET a == ct11_turns[i - 1]
                  b == ct11_turns[i]
                  c == ct11_turns[i + 1]
                  horizontal(p, q) == p[2] = q[2] /\ p[1] # q[1]
                  vertical(p, q) == p[1] = q[1] /\ p[2] # q[2]
              IN  \/ horizontal(a, b) /\ vertical(b, c)
                  \/ vertical(a, b) /\ horizontal(b, c)
        /\ CT11_assert_compressed_turns(ct11_turns) = "ok"
        /\ ct11v_verdict \in {"waiting", "start", "expand", "pass"}

C12_Witness ==
    /\ ct11_status = "done"
    /\ ct11_n = 5
    /\ Len(ct11_turns) > 9
    /\ Len(ct11_turns) < Len(ct11_path)
    /\ ct11v_verdict = "expand"

\* C13 (CT11): expanding the turning-point list compressed from the closed
\* walk W of _traverse_full_cycle gives W again, point by point, and the
\* list begins and ends with the point (n, 0).
C13_ExpandInvertsCompress ==
    (ct11_status = "done" /\ ct11v_verdict \notin {"waiting", "start"}) =>
        /\ ct11_turns[1] = <<ct11_n, 0>>
        /\ ct11_turns[Len(ct11_turns)] = <<ct11_n, 0>>
        /\ ct11v_turns = ct11_turns
        /\ IF ct11v_verdict = "expand" /\ ct11v_i < Len(ct11v_turns) - 1
           THEN ct11v_full = SubSeq(ct11_path, 1, Len(ct11v_full))
           ELSE ct11v_full = ct11_path

C13_Witness ==
    /\ ct11_status = "done"
    /\ ct11_n = 4
    /\ ct11v_verdict = "expand"
    /\ ct11v_i = Len(ct11v_turns) - 1
    /\ ct11v_full = ct11_path
    /\ Len(ct11v_turns) < Len(ct11_path)

C15_EdgeListRoundTrip ==
    /\ ct1p_phase \in {"idle", "parse", "check", "checked", "VE", "done"}
    /\ ct1p_phase = "done" =>
          /\ ct1p_A2 = ct1p_A
          /\ CT1_as_object(ct1p_A2) = ct1p_obj
          /\ ct1p_verdict2 = ct1p_verdict
          /\ ct1p_verdict = "ok"
    /\ ct1p_phase = "VE" =>
          \A r, c \in 1..Len(ct1p_A2) : ct1p_A2[r][c] = 1 => ct1p_A[r][c] = 1

C15_Witness ==
    /\ ct1p_phase = "done"
    /\ Len(ct1p_A) = 4
    /\ Len(ct1p_E) = 4
    /\ ct1p_A2 = ct1p_A
    /\ ct1p_verdict2 = "ok"

\* C16 (CT1 verifier): a matrix with a non-integer entry (such as 1.5) is
\* never accepted: _parse_construction ends with a failure for it.
C16_NonIntegerEntryRejected ==
    (/\ ct1p_phase = "checked"
     /\ \E r, c \in DOMAIN ct1p_obj : ct1p_obj[r][c] % 2 = 1) =>
        ct1p_verdict # "ok"

\* C17, as stated of the CT6 unit: the value solution returns for m, n >= 1
\* is an (m+1) x (n+1) matrix whose entries other than [0][0] are pairwise
\* distinct and in 1 .. m*n+m+n, with matrix[i][j] + matrix[i][0] +
\* matrix[0][j] the same for every inner cell.
C17_CT6ReturnsMagicLabelling ==
    (ct6_pc = "done" /\ ct6_m >= 1 /\ ct6_n >= 1) =>
        LET M == ct6_terms
        IN  /\ Len(M) = ct6_m + 1
            /\ \A r \in DOMAIN M : Len(M[r]) = ct6_n + 1
            /\ CT8_test_label_range_and_distinct(M, ct6_m, ct6_n) = "ok"
            /\ CT8_test_magic_property(M, ct6_m, ct6_n) = "ok"

\* C17, amended to the CT8 unit: for m, n >= 1 the matrix its solution
\* returns has m+1 rows of n+1 entries, the entries other than [0][0] are
\* pairwise distinct and in 1 .. m*n+m+n, and matrix[i][j] + matrix[i][0]
\* + matrix[0][j] is the same constant for every inner cell (i, j).
C17_CT8ReturnsMagicLabelling ==
    /\ ct8_pc \in {"idle", "call", "ValueError", "columns", "rows", "edges",
                   "returned", "done"}
    /\ ct8_pc = "ValueError" <=> (ct8_pc # "idle" /\ ct8_pc # "call"
                                   /\ (ct8_m < 1 \/ ct8_n < 1))
    /\ ct8_pc \in {"returned", "done"} =>
          LET M == ct8_matrix
              cells == ((1..(ct8_m + 1)) \X (1..(ct8_n + 1))) \ {<<1, 1>>}
          IN  /\ Len(M) = ct8_m + 1
              /\ \A r \in DOMAIN M : Len(M[r]) = ct8_n + 1
              /\ \A c \in cells : M[c[1]][c[2]] \in 1..(ct8_m * ct8_n + ct8_m + ct8_n)
              /\ \A c, d \in cells : c # d => M[c[1]][c[2]] # M[d[1]][d[2]]
              /\ \A i, k \in 2..(ct8_m + 1) : \A j, l \in 2..(ct8_n + 1) :
                    M[i][j] + M[i][1] + M[1][j] = M[k][l] + M[k][1] + M[1][l]
    /\ ct8_pc = "done" => ct8_verdict = "ok"

C17_Witness ==
    /\ ct8_pc = "done"
    /\ ct8_m = 2
    /\ ct8_n = 3
    /\ ct8_matrix = <<<<0, 1, 2, 3>>, <<4, 11, 10, 9>>, <<8, 7, 6, 5>>>>
    /\ ct8_verdict = "ok"

\* C18 (CT5): for every n >= 3 the call raises nothing and returns a list of
\* exactly 2^n - 1 pairwise distinct non-empty subsets of {1..n} in which
\* every two cyclically adjacent subsets (the last and the first included)
\* have exactly one common element; both tests pass on it.
C18_AllSubsetsInCircle ==
    /\ ct5_n >= 3 => ct5_pc \notin {"ValueError", "RuntimeError"}
    /\ (ct5_n >= 3 /\ ct5_pc \in {"returned", "done"}) =>
          LET L == ct5_result
              m == Len(L)
          IN  /\ m = 2^ct5_n - 1
              /\ \A k \in 1..m : Range(L[k]) # {} /\ Range(L[k]) \subseteq 1..ct5_n
              /\ \A k, l \in 1..m : k # l => Range(L[k]) # Range(L[l])
              /\ \A k \in 1..m :
                    Cardinality(Range(L[k]) \cap Range(L[(k % m) + 1])) = 1
    /\ (ct5_n >= 3 /\ ct5_pc = "done") => ct5_verdict = "pass"

\* The call with n = 5 has returned its 31 subsets after two lifts.
C18_Witness ==
    /\ ct5_n = 5
    /\ ct5_pc = "done"
    /\ ct5_cur = 5
    /\ Len(ct5_result) = 31
    /\ ct5_result[1] = <<1>>
    /\ ct5_result[31] = <<1, 5>>
    /\ ct5_verdict = "pass"

\* C19 (CT12): at every iteration of the loop t^2 - 3*m^2 = 6, and for every
\* positive integer M the returned n = m^2 + 2 is greater than M and
\* n^3 - 2 = (m^3 + 3m)^2 + t^2.
C19_PellInvariantAndReturn ==
    /\ ct12_pc # "idle" => ct12_t * ct12_t - 3 * ct12_m * ct12_m = 6
    /\ (ct12_pc = "returned" /\ ct12_M >= 1) =>
          /\ ct12_n = ct12_m * ct12_m + 2
          /\ ct12_n > ct12_M
          /\ ct12_n * ct12_n * ct12_n - 2 =
                (ct12_m * ct12_m * ct12_m + 3 * ct12_m)
                   * (ct12_m * ct12_m * ct12_m + 3 * ct12_m)
                + ct12_t * ct12_t

\* C20 (CT7): whenever a call of backtrack returns False, a, pos_free,
\* val_free and remaining are what they were when that call was entered:
\* every assignment tried inside the call has been undone.
C20_FalseReturnRestoresState ==
    [][(ct7_status = "search" /\ ct7_ret = "none" /\ ct7_ret' = "False")
          => CT7_search_state' = CT7_top.entered]_vars

\* The search for n = 9: the call backtrack(6) has tried its candidates,
\* with two failing calls below it, and has returned False: six values
\* are placed again and its d is back in remaining.
C20_Witness ==
    /\ ct7_n = 9
    /\ ct7_status = "search"
    /\ ct7_ret = "False"
    /\ Len(ct7_stack) = 6
    /\ Cardinality({i \in 1..9 : ct7_a[i] # 0}) = 6
    /\ Cardinality(ct7_remaining) = 3

\* The simple cycles of A with exactly k vertices, as the sequences of their
\* vertices: k distinct vertices, consecutive ones adjacent, the last one
\* adjacent to the first.
SimpleCycles(A, k) ==
    {p \in [1..k -> 0..(Len(A) - 1)] :
        /\ \A s, t \in 1..k : s # t => p[s] # p[t]
        /\ \A t \in 1..(k - 1) : A[p[t] + 1][p[t + 1] + 1] = 1
        /\ A[p[k] + 1][p[1] + 1] = 1}

\* A has a simple cycle with exactly k vertices that uses the edge {i, j}.
OnSimpleCycle(A, i, j, k) ==
    \E p \in SimpleCycles(A, k) : p[1] = i /\ p[2] = j

C22_NoCycleCheckIsExact ==
    /\ ct1c_fn = "_no_cycle_length_multiple_of" =>
          LET r == ct1c_ret[1]
              n == Len(ct1c_A)
              mod == ct1c_args[1]
          IN  mod >= 1 =>
                 /\ r.ok <=> \A k \in 3..n :
                                k % mod = 0 => SimpleCycles(ct1c_A, k) = {}
                 /\ CT1_mod_lengths(mod, n) = {k \in 3..n : k % mod = 0}
                 /\ ~r.ok => /\ r.k \in 3..n
                             /\ r.k % mod = 0
                             /\ r.cyc \in SimpleCycles(ct1c_A, r.k)
    /\ ct1c_fn = "_has_cycle_of_length_k" =>
          LET k == ct1c_args[1]
              cyc == ct1c_ret[1]
          IN  /\ cyc # <<>> <=> (k >= 3 /\ SimpleCycles(ct1c_A, k) # {})
              /\ cyc # <<>> => cyc \in SimpleCycles(ct1c_A, k)

\* The square 0-1-2-3 checked with mod = 1: length 3 is looked for and not
\* found, length 4 is found and the cycle 0, 1, 2, 3 is reported.
C22_Witness ==
    /\ ct1c_A = CT1_graph(4, {<<0, 1>>, <<1, 2>>, <<2, 3>>, <<0, 3>>})
    /\ ct1c_fn = "_no_cycle_length_multiple_of"
    /\ ct1c_args = <<1>>
    /\ ~ct1c_ret[1].ok
    /\ ct1c_ret[1].k = 4
    /\ ct1c_ret[1].cyc = <<0, 1, 2, 3>>

\* Two diagonals cross when their ends alternate around the polygon.
Crossing(d, e) ==
    \/ (d[1] < e[1] /\ e[1] < d[2] /\ d[2] < e[2])
    \/ (e[1] < d[1] /\ d[1] < e[2] /\ e[2] < d[2])

\* The triangulations of a polygon with m vertices whose valid diagonals
\* are D: the sets of m - 3 pairwise non-crossing diagonals of D.
Triangulations(m, D) ==
    {T \in SUBSET D :
        /\ Cardinality(T) = m - 3
        /\ \A d, e \in T : ~Crossing(d, e)}

\* The Catalan numbers: C(0) = 1, C(n) = C(n - 1) * 2 * (2n - 1) / (n + 1).
RECURSIVE Catalan(_)
Catalan(n) ==
    IF n = 0 THEN 1 ELSE (Catalan(n - 1) * 2 * (2 * n - 1)) \div (n + 1)

\* The valid diagonals recorded in the table ct15_valid.
C23_ValidDiagonals ==
    {d \in CT15_diagonals(Len(ct15_poly)) : ct15_valid[d[1]][d[2]]}

\* C23 (CT15 verifier): for a polygon with m >= 3 vertices and any validity
\* relation on its diagonals, the interval DP of count_triangulations
\* returns the number of sets of m - 3 pairwise non-crossing valid
\* diagonals; with every diagonal valid that is the Catalan number C(m - 2),
\* and for a triangle it is 1.
C23_DpCountsTriangulations ==
    (ct15_phase \in {"pass", "fail: wrong count"}) =>
        LET m == Len(ct15_poly)
        IN  /\ ct15_num = Cardinality(Triangulations(m, C23_ValidDiagonals))
            /\ C23_ValidDiagonals = CT15_diagonals(m) =>
                  ct15_num = Catalan(m - 2)
            /\ m = 3 => ct15_num = 1

\* A hexagon in which every diagonal but (2, 5) is valid: the DP has
\* returned 10, the 14 triangulations of the convex hexagon less the four
\* that use (2, 5).
C23_Witness ==
    /\ Len(ct15_poly) = 6
    /\ C23_ValidDiagonals = CT15_diagonals(6) \ {<<2, 5>>}
    /\ ct15_phase \in {"pass", "fail: wrong count"}
    /\ ct15_num = 10

\* The directed unit segments of the n x n grid: both directions of every
\* interior segment; of a segment on the boundary only the clockwise
\* direction (north on the left side, east on the top side, south on the
\* right side, west on the bottom side).
ClockwiseTown(n) ==
    {e \in ((0..n) \X (0..n)) \X ((0..n) \X (0..n)) :
        LET u == e[1]
            v == e[2]
        IN  /\ Abs(v[1] - u[1]) + Abs(v[2] - u[2]) = 1
            /\ (u[1] = 0 /\ v[1] = 0) => v[2] = u[2] + 1
            /\ (u[2] = n /\ v[2] = n) => v[1] = u[1] + 1
            /\ (u[1] = n /\ v[1] = n) => v[2] = u[2] - 1
            /\ (u[2] = 0 /\ v[2] = 0) => v[1] = u[1] - 1}

\* C24 (CT11): for every n >= 1 the set of directed edges built by
\* _build_town_graph has exactly 4*n^2 elements, the number
\* _expected_edge_count gives: every interior unit segment in both
\* directions and every boundary unit segment in the clockwise direction
\* only.
C24_TownGraphHasFourNSquaredEdges ==
    ct11_n >= 1 =>
        /\ Cardinality(CT11_build_town_graph(ct11_n)) = 4 * ct11_n * ct11_n
        /\ CT11_expected_edge_count(ct11_n) = 4 * ct11_n * ct11_n
        /\ CT11_build_town_graph(ct11_n) = ClockwiseTown(ct11_n)

\* The test has built the graph for n = 4 and passed the route: 64 edges,
\* the left side only northwards, an interior segment in both directions.
C24_Witness ==
    /\ ct11_n = 4
    /\ ct11v_n = 4
    /\ ct11v_verdict = "pass"
    /\ Cardinality(CT11_build_town_graph(ct11v_n)) = 64
    /\ <<<<0, 0>>, <<0, 1>>>> \in CT11_build_town_graph(ct11v_n)
    /\ <<<<0, 1>>, <<0, 0>>>> \notin CT11_build_town_graph(ct11v_n)
    /\ <<<<1, 1>>, <<2, 1>>>> \in CT11_build_town_graph(ct11v_n)
    /\ <<<<2, 1>>, <<1, 1>>>> \in CT11_build_town_graph(ct11v_n)

\* C25 (CT7): whenever solution returns a list a for n, the n absolute
\* displacements |a[i] - (i+1)|, zero included, are pairwise distinct, so
\* the set of displacements is exactly {0, ..., n-1}.
C25_DisplacementsAreZeroToNMinusOne ==
    (ct7_status = "done" /\ ct7_result.kind = "list") =>
        LET a == ct7_result.val
            n == ct7_input.val
        IN  /\ Len(a) = n
            /\ \A i, j \in 1..n : i # j => Abs(a[i] - i) # Abs(a[j] - j)
            /\ {Abs(a[i] - i) : i \in 1..n} = 0..(n - 1)

\* The search for n = 9 has returned its list; the last position keeps the
\* displacement 6 and position 5 the displacement 3.
C25_Witness ==
    /\ ct7_status = "done"
    /\ ct7_input = [kind |-> "int", val |-> 9]
    /\ ct7_result = CT7_list(<<9, 7, 4, 8, 2, 6, 5, 1, 3>>)
    /\ {Abs(ct7_result.val[i] - i) : i \in 1..9} = 0..8

\* What C26 says of every state of the walk.
C26_WalkIsSound ==
    LET steps == Len(ct11_path) - 1
    IN  /\ ct11_status \notin {"RuntimeError: cycle repetition",
                               "RuntimeError: exceeded edge count"}
        /\ PathEdges(ct11_path) \subseteq CT11_build_town_graph(ct11_n)
        /\ Cardinality(PathEdges(ct11_path)) = steps
        /\ steps <= 4 * ct11_n * ct11_n
        /\ ct11_status # "walking" =>
              ct11_path[Len(ct11_path)] = CT11_start_u(ct11_n)

\* C26 (CT11 simulator): for every n >= 1 and every set of marked interior
\* points the walk from the start edge uses only allowed directed edges,
\* none of them twice, and is back at the start edge after at most 4*n^2
\* steps: the loop ends, and never with "Cycle repetition detected" or
\* "Exceeded expected edge count".
C26_WalkReturnsToStartEdge ==
    /\ [](ct11_status # "idle" => C26_WalkIsSound)
    /\ <>(ct11_status \notin {"idle", "walking"})

\* n = 4 with the single mark (2, 2): the walk is back at the start edge
\* after fewer than 64 steps, and the loop has ended.
C26_Witness ==
    /\ ct11_n = 4
    /\ ct11_marks = {<<2, 2>>}
    /\ ct11_status \notin {"idle", "walking"}
    /\ Len(ct11_path) - 1 < 64
    /\ ct11_path[Len(ct11_path)] = <<4, 0>>
    /\ Cardinality(ct11_visited_edges) = Len(ct11_path) - 1

\* A call backtrack(placed_count) has just been entered.
C27_AtEntry ==
    /\ ct7_status = "search"
    /\ ct7_stack # <<>>
    /\ ct7_ret = "none"
    /\ CT7_top.pc = "entry"

\* C27 (CT7): at every entry to backtrack(placed_count), placed_count equals
\* n - |remaining|, the number of positions that are not free and the
\* number of values that are not free; a is non-zero exactly at the
\* positions that are not free; the displacements of the assigned positions
\* are pairwise distinct and are exactly the values of 0..n-1 that are not
\* in remaining; and the recursion is never deeper than n calls below
\* backtrack(0).
C27_SearchStateAtEntry ==
    C27_AtEntry =>
        LET n == ct7_n
            placed_count == CT7_top.placed_count
            assigned == {i \in 1..n : ~ct7_pos_free[i]}
        IN  /\ placed_count = n - Cardinality(ct7_remaining)
            /\ placed_count = Cardinality(assigned)
            /\ placed_count = Cardinality({j \in 1..n : ~ct7_val_free[j]})
            /\ \A i \in 1..n : ct7_a[i] # 0 <=> i \in assigned
            /\ \A i, j \in assigned :
                  i # j => Abs(ct7_a[i] - i) # Abs(ct7_a[j] - j)
            /\ {Abs(ct7_a[i] - i) : i \in assigned} = (0..(n - 1)) \ ct7_remaining
            /\ placed_count <= n
            /\ Len(ct7_stack) = placed_count + 1

\* The search for n = 12: backtrack(10) is entered from a later candidate
\* of backtrack(9), calls below the earlier candidates having failed.
C27_Witness ==
    /\ C27_AtEntry
    /\ ct7_n = 12
    /\ CT7_top.placed_count = 10
    /\ Cardinality(ct7_remaining) = 2
    /\ ct7_stack[10].idx > 1

\* The free positions P and the free values V can be matched so that the
\* displacements of the pairs are exactly the values of R, each once: the
\* largest value of R is given to a pair, and so on with the rest.
RECURSIVE Completable(_, _, _)
Completable(P, V, R) ==
    IF R = {} THEN P = {} /\ V = {}
    ELSE LET d == CHOOSE x \in R : \A y \in R : y <= x
         IN  \E i \in P : \E j \in V :
                /\ Abs(j - i) = d
                /\ Completable(P \ {i}, V \ {j}, R \ {d})

\* The partial assignment of the search state can be completed to a
\* permutation of 1..n whose displacements are exactly 0..n-1.
C28_BranchHasSolution ==
    Completable({i \in 1..ct7_n : ct7_pos_free[i]},
                {j \in 1..ct7_n : ct7_val_free[j]}, ct7_remaining)

\* C28 (CT7): for n not in {1, 4, 5} with n mod 4 in {0, 1} the search
\* terminates; a call of backtrack returns False only in a state that no
\* assignment of the remaining displacements completes, so neither the
\* choice of d nor the d = 0 prune gives up a branch that holds a solution,
\* and solution returns None only if no permutation of 1..n has the
\* displacements 0..n-1.
C28_SearchIsComplete ==
    /\ [](ct7_ret = "False" => ~C28_BranchHasSolution)
    /\ []((ct7_status = "done" /\ ct7_ret # "none" /\ ct7_result = CT7_None)
             => ~Completable(1..ct7_n, 1..ct7_n, 0..(ct7_n - 1)))
    /\ (ct7_status = "search") ~> (ct7_status = "done")

\* The search for n = 12: backtrack(9) has returned False, nine values
\* being placed, and the three free positions cannot take the three
\* remaining displacements.
C28_Witness ==
    /\ ct7_n = 12
    /\ ct7_status = "search"
    /\ ct7_ret = "False"
    /\ Len(ct7_stack) = 9
    /\ Cardinality(ct7_remaining) = 3
    /\ ~C28_BranchHasSolution

\* The first half of C29: an accepted list ends at the point it starts at.
C29_AcceptedRouteIsClosed ==
    ct11v_verdict = "pass" =>
        ct11v_turns[Len(ct11v_turns)] = ct11v_turns[1]

\* C29 (CT11 verifier): every turning-point list that
\* test_route_uses_all_directed_sides_once accepts is a closed tour, its
\* last point equal to its first, and the transition that closes it, from
\* the direction of its last step to the direction of its first step, is
\* straight or a right turn as well.
C29_AcceptedTourClosesStraightOrRight ==
    ct11v_verdict = "pass" =>
        LET p == ct11v_full
            m == Len(p)
            first == <<p[2][1] - p[1][1], p[2][2] - p[1][2]>>
            last == <<p[m][1] - p[m - 1][1], p[m][2] - p[m - 1][2]>>
        IN  /\ ct11v_turns[Len(ct11v_turns)] = ct11v_turns[1]
            /\ \/ first = last
               \/ first = <<last[2], -last[1]>>

\* C30 (CT16 repair loop): whatever reversals and reshuffles have been
\* made, the working order holds every point key exactly once; the loop is
\* left after at most max_iterations iterations; and an order returned from
\* inside the loop, before the iterations are used up, passes _verify.
C30_RepairKeepsPermutation ==
    ct16_status # "idle" =>
        /\ Len(ct16_construction) = Cardinality(DOMAIN ct16_points)
        /\ Range(ct16_construction) = DOMAIN ct16_points
        /\ ct16_iter <= CT16_max_iterations
        /\ ct16_status = "fallback" => ct16_iter = CT16_max_iterations
        /\ ct16_status = "returned" =>
              /\ ct16_iter < CT16_max_iterations
              /\ CT16_verify(ct16_construction, ct16_n, ct16_points) = "Correct Answer"

\* Five points whose first order is returned after two reversals.
C30_Witness ==
    /\ ct16_status = "returned"
    /\ ct16_n = 5
    /\ ct16_iter = 2

====
